---- MODULE Spec2Model ----
(***************************************************************************)
(* Amigo Perto v2 firmware (etapa3/amigo_perto_v2): the BLE connectivity   *)
(* manager (hal/ble.c), the buzzer pattern engine (hal/buzzer.c), the      *)
(* battery gauge (hal/battery.c), the GATT bridges                         *)
(* (gatt/battery_service.c, gatt/buzzer_service.c) and the application     *)
(* callbacks that wire them (main.c).                                      *)
(*                                                                         *)
(* Every C function is an operator from a state record s (one field per    *)
(* static variable of the firmware, plus the link-layer and PWM state it   *)
(* drives) to the record after the call.  The return value of the call is  *)
(* left in s.ret, the link-layer / kernel primitives it called in s.calls, *)
(* the application callbacks it delivered in s.cbs and what it wrote       *)
(* through the caller's output pointer in s.out (empty when it wrote       *)
(* nothing).  Every handler runs to completion before the next one starts. *)
(***************************************************************************)
EXTENDS Integers, Sequences, FiniteSets, TLC

(***************************************************************************)
(* Bounds of the model                                                     *)
(***************************************************************************)
\* number of distinct connection objects the link layer hands out
MaxConns == 2

\* flips of the on/off flag counted after a deactivation
MaxToggles == 2

NULL == 0
Conns == 1..MaxConns

(***************************************************************************)
(* Program constants                                                       *)
(***************************************************************************)
HAL_BLE_SUCCESS == 0
HAL_BLE_ERROR_INIT == -1
HAL_BLE_ERROR_INVALID == -2
HAL_BLE_ERROR_STATE == -3
HAL_BLE_ERROR_NOT_CONNECTED == -4
HAL_BLE_ERROR_FAILED == -5

HAL_BUZZER_SUCCESS == 0
HAL_BUZZER_ERROR_INIT == -1
HAL_BUZZER_ERROR_INVALID == -2
HAL_BUZZER_ERROR_STATE == -3
HAL_BUZZER_INTENSITY_MEDIUM == 50

ADV_INTERVAL_MIN_MS == 20
ADV_INTERVAL_MAX_MS == 10240
DEFAULT_ADV_INTERVAL_MIN_MS == 500
DEFAULT_ADV_INTERVAL_MAX_MS == 500
MAX_DEVICE_NAME_LEN == 29
PWM_PERIOD_NS == 20000000
PATTERN_INTERMITTENT_PERIOD_MS == 500

HAL_BATTERY_SUCCESS == 0
HAL_BATTERY_ERROR_INIT == -1
HAL_BATTERY_ERROR_READ == -2
HAL_BATTERY_ERROR_STATE == -3
HAL_BATTERY_STATE_CRITICAL == 0
HAL_BATTERY_STATE_LOW == 1
HAL_BATTERY_STATE_MEDIUM == 2
HAL_BATTERY_STATE_GOOD == 3
HAL_BATTERY_STATE_UNKNOWN == 4

ADC_RESOLUTION == 12
ADC_VREF_MV == 3600
ADC_SAMPLES == 4
BATTERY_VOLTAGE_MAX_MV == 3000
BATTERY_VOLTAGE_GOOD_MV == 2800
BATTERY_VOLTAGE_LOW_MV == 2500
BATTERY_VOLTAGE_CRIT_MV == 2200
BATTERY_VOLTAGE_MIN_MV == 2000
\* 1.0f: no resistive divider
BATTERY_DIVIDER_RATIO == 1

\* widths of the integer types of the gauge's interface
UINT8_MAX == 2^8 - 1
UINT16_MAX == 2^16 - 1

\* errno values returned by the battery bridge and the gauge, ATT error codes returned by
\* the buzzer bridge (BT_GATT_ERR(x) is -(x)), CCC value enabling notifications
ENOTCONN == 128
EACCES == 13
EIO == 5
BT_ATT_ERR_INVALID_OFFSET == 7
BT_ATT_ERR_INVALID_ATTRIBUTE_LEN == 13
BT_ATT_ERR_VALUE_NOT_ALLOWED == 19
BT_GATT_CCC_NOTIFY == 1

\* bt_le_adv_param option bits
BT_LE_ADV_OPT_CONN == 1
BT_LE_ADV_OPT_USE_IDENTITY == 4

(***************************************************************************)
(* State: one variable per static variable of the firmware                 *)
(***************************************************************************)
VARIABLES
    \* hal/ble.c
    ble_initialized,              \* initialized
    current_state,                \* "IDLE", "READY", "ADVERTISING", "CONNECTED"
    user_callbacks,               \* "none" or "app" (main.c ble_callbacks)
    device_name,                  \* length of the stored name
    ble_current_conn,             \* current_conn: NULL or a connection
    adv_work,                     \* TRUE while the work item is queued
    adv_param,                    \* TRUE when adv_param points to the storage
    adv_param_storage,            \* [options, interval_min, interval_max]
    \* link layer, as driven by hal/ble.c
    ll_enabled,                   \* bt_enable succeeded
    ll_adv,                       \* the radio is advertising
    ll_link,                      \* the live link, NULL if none
    ble_refs,                     \* references hal/ble.c holds, per connection
    \* hal/buzzer.c
    buzzer_initialized,           \* initialized
    current_intensity,
    pattern_intermittent_active,
    pattern_intermittent_work,    \* "idle", "queued" (runs now), "delayed",
                                  \* "canceling" (cancelled while running)
    handler_state,                \* static bool state of the handler
    pwm_pulse,                    \* pulse width last written to the PWM, ns
    pc,                           \* where the toggle handler (work) and
                                  \* stop_intermittent (link) stand
    toggles_after_stop,           \* flips of the flag since active = false
    \* hal/battery.c
    battery_initialized,          \* initialized
    last_reading,                 \* [voltage_mv, percentage, state]
    \* gatt/battery_service.c
    bas_current_conn,             \* current_conn: NULL or a connection
    bas_refs,                     \* references the bridge holds, per connection
    notify_enabled,
    battery_level,
    battery_voltage,
    battery_state,
    app_callbacks,                \* "none" (NULL) or "app" (main.c battery_callbacks)
    \* gatt/buzzer_service.c
    buzzer_cb,                    \* "none" or "app" (main.c buzzer_callbacks)
    \* main.c status LEDs
    led_verde,
    led_azul,
    \* the last operation: its name, arguments, return value, the primitives
    \* it called, the callbacks it delivered, what it wrote to the caller's
    \* output and the state it started from
    ev

fw == <<ble_initialized, current_state, user_callbacks, device_name,
        ble_current_conn, adv_work, adv_param, adv_param_storage,
        ll_enabled, ll_adv, ll_link, ble_refs,
        buzzer_initialized, current_intensity, pattern_intermittent_active,
        pattern_intermittent_work, handler_state, pwm_pulse,
        pc, toggles_after_stop,
        battery_initialized, last_reading,
        bas_current_conn, bas_refs, notify_enabled, battery_level,
        battery_voltage, battery_state, app_callbacks,
        buzzer_cb, led_verde, led_azul>>

vars == <<fw, ev>>

\* The firmware state as one record.
FwRec ==
    [ ble_initialized |-> ble_initialized,
      current_state |-> current_state,
      user_callbacks |-> user_callbacks,
      device_name |-> device_name,
      ble_current_conn |-> ble_current_conn,
      adv_work |-> adv_work,
      adv_param |-> adv_param,
      adv_param_storage |-> adv_param_storage,
      ll_enabled |-> ll_enabled,
      ll_adv |-> ll_adv,
      ll_link |-> ll_link,
      ble_refs |-> ble_refs,
      buzzer_initialized |-> buzzer_initialized,
      current_intensity |-> current_intensity,
      pattern_intermittent_active |-> pattern_intermittent_active,
      pattern_intermittent_work |-> pattern_intermittent_work,
      handler_state |-> handler_state,
      pwm_pulse |-> pwm_pulse,
      pc |-> pc,
      toggles_after_stop |-> toggles_after_stop,
      battery_initialized |-> battery_initialized,
      last_reading |-> last_reading,
      bas_current_conn |-> bas_current_conn,
      bas_refs |-> bas_refs,
      notify_enabled |-> notify_enabled,
      battery_level |-> battery_level,
      battery_voltage |-> battery_voltage,
      battery_state |-> battery_state,
      app_callbacks |-> app_callbacks,
      buzzer_cb |-> buzzer_cb,
      led_verde |-> led_verde,
      led_azul |-> led_azul ]

\* The state a call starts from: the firmware state and an empty log.
Cur == FwRec @@ [ret |-> 0, calls |-> <<>>, cbs |-> <<>>, out |-> <<>>]

\* What an operation started from, kept with the operation in ev.
Pre == FwRec

\* The step of one operation: the firmware state becomes s.
Commit(op, arg, s) ==
    /\ ble_initialized' = s.ble_initialized
    /\ current_state' = s.current_state
    /\ user_callbacks' = s.user_callbacks
    /\ device_name' = s.device_name
    /\ ble_current_conn' = s.ble_current_conn
    /\ adv_work' = s.adv_work
    /\ adv_param' = s.adv_param
    /\ adv_param_storage' = s.adv_param_storage
    /\ ll_enabled' = s.ll_enabled
    /\ ll_adv' = s.ll_adv
    /\ ll_link' = s.ll_link
    /\ ble_refs' = s.ble_refs
    /\ buzzer_initialized' = s.buzzer_initialized
    /\ current_intensity' = s.current_intensity
    /\ pattern_intermittent_active' = s.pattern_intermittent_active
    /\ pattern_intermittent_work' = s.pattern_intermittent_work
    /\ handler_state' = s.handler_state
    /\ pwm_pulse' = s.pwm_pulse
    /\ pc' = s.pc
    /\ toggles_after_stop' = s.toggles_after_stop
    /\ battery_initialized' = s.battery_initialized
    /\ last_reading' = s.last_reading
    /\ bas_current_conn' = s.bas_current_conn
    /\ bas_refs' = s.bas_refs
    /\ notify_enabled' = s.notify_enabled
    /\ battery_level' = s.battery_level
    /\ battery_voltage' = s.battery_voltage
    /\ battery_state' = s.battery_state
    /\ app_callbacks' = s.app_callbacks
    /\ buzzer_cb' = s.buzzer_cb
    /\ led_verde' = s.led_verde
    /\ led_azul' = s.led_azul
    /\ ev' = [op |-> op, arg |-> arg, ret |-> s.ret,
              calls |-> s.calls, cbs |-> s.cbs, out |-> s.out, pre |-> Pre]

Return(s, r) == [s EXCEPT !.ret = r]
Call(s, f, a) == [s EXCEPT !.calls = Append(@, <<f, a>>)]
Deliver(s, cb, a) == [s EXCEPT !.cbs = Append(@, <<cb, a>>)]
Called(f) == \E i \in 1..Len(ev.calls) : ev.calls[i][1] = f
CalledWith(f, a) ==
    \E i \in 1..Len(ev.calls) : ev.calls[i][1] = f /\ ev.calls[i][2] = a
CountCalls(f, a) ==
    Cardinality({i \in 1..Len(ev.calls) : ev.calls[i][1] = f /\ ev.calls[i][2] = a})
Delivered(cb) == \E i \in 1..Len(ev.cbs) : ev.cbs[i][1] = cb
DeliveredWith(cb, a) ==
    \E i \in 1..Len(ev.cbs) : ev.cbs[i][1] = cb /\ ev.cbs[i][2] = a

(***************************************************************************)
(* hal/battery.c                                                           *)
(***************************************************************************)
\* C integer division: truncates towards zero
CDiv(a, b) ==
    IF (a >= 0) = (b > 0) THEN a \div b
    ELSE -((-a) \div b)

\* mutant: the quotient is rounded to the nearest integer
adc_raw_to_mv_rounds(adc_value) ==
    LET adc_max == 2^ADC_RESOLUTION - 1
        voltage_mv == CDiv(2 * adc_value * ADC_VREF_MV + adc_max, 2 * adc_max)
    IN  (voltage_mv * BATTERY_DIVIDER_RATIO) % (UINT16_MAX + 1)
\* adc_value is the average of valid samples, 0 .. 2^ADC_RESOLUTION - 1, so
\* the uint32 product does not wrap; the float product with 1.0f is exact
adc_raw_to_mv(adc_value) ==
    LET adc_max == 2^ADC_RESOLUTION - 1
        voltage_mv == CDiv(adc_value * ADC_VREF_MV, adc_max)
    IN  (voltage_mv * BATTERY_DIVIDER_RATIO) % (UINT16_MAX + 1)

\* a sample is <<what adc_read returned, adc_sample_buffer[0] after it>>
SampleValid(sample) ==
    /\ sample[1] >= 0
    /\ sample[2] >= 0
    /\ sample[2] < 2^ADC_RESOLUTION

RECURSIVE SumValid(_, _)
SumValid(samples, i) ==
    IF i = 0 THEN 0
    ELSE SumValid(samples, i - 1)
             + (IF SampleValid(samples[i]) THEN samples[i][2] ELSE 0)

CountValid(samples) ==
    Cardinality({i \in 1..ADC_SAMPLES : SampleValid(samples[i])})

RECURSIVE AdcReads(_, _)
AdcReads(s, i) ==
    IF i = 0 THEN s ELSE Call(AdcReads(s, i - 1), "adc_read", i)

\* mutant: the sum of the valid samples is divided by the number of reads
adc_read_with_oversampling_divides_by_reads(s, samples) ==
    LET s1 == AdcReads(s, ADC_SAMPLES)
    IN  IF CountValid(samples) = 0 THEN Return(s1, -EIO)
        ELSE Return([s1 EXCEPT !.out =
                        <<adc_raw_to_mv(CDiv(SumValid(samples, ADC_SAMPLES),
                                             ADC_SAMPLES))>>], 0)

\* writes *voltage_mv only when at least one sample is valid
adc_read_with_oversampling(s, samples) ==
    LET s1 == AdcReads(s, ADC_SAMPLES)
        sum == SumValid(samples, ADC_SAMPLES)
        valid_samples == CountValid(samples)
    IN  IF valid_samples = 0 THEN Return(s1, -EIO)
        ELSE LET avg_raw == CDiv(sum, valid_samples)
             IN  Return([s1 EXCEPT !.out = <<adc_raw_to_mv(avg_raw)>>], 0)

\* mutant: the quotient is rounded to the nearest integer
linear_interpolate_rounds(x, x0, y0, x1, y1) ==
    IF x <= x0 THEN y0
    ELSE IF x >= x1 THEN y1
    ELSE y0 + CDiv(2 * (x - x0) * (y1 - y0) + (x1 - x0), 2 * (x1 - x0))

linear_interpolate(x, x0, y0, x1, y1) ==
    IF x <= x0 THEN y0
    ELSE IF x >= x1 THEN y1
    ELSE y0 + CDiv((x - x0) * (y1 - y0), x1 - x0)

\* mutant: the middle segment ends at 75%, the next one still starts at 70%
hal_battery_voltage_to_percentage_overlapping(voltage_mv) ==
    LET percentage ==
            IF voltage_mv >= BATTERY_VOLTAGE_MAX_MV THEN 100
            ELSE IF voltage_mv >= BATTERY_VOLTAGE_GOOD_MV
                 THEN linear_interpolate(voltage_mv, BATTERY_VOLTAGE_GOOD_MV, 70,
                                         BATTERY_VOLTAGE_MAX_MV, 100)
            ELSE IF voltage_mv >= BATTERY_VOLTAGE_LOW_MV
                 THEN linear_interpolate(voltage_mv, BATTERY_VOLTAGE_LOW_MV, 30,
                                         BATTERY_VOLTAGE_GOOD_MV, 75)
            ELSE IF voltage_mv >= BATTERY_VOLTAGE_CRIT_MV
                 THEN linear_interpolate(voltage_mv, BATTERY_VOLTAGE_CRIT_MV, 10,
                                         BATTERY_VOLTAGE_LOW_MV, 30)
            ELSE IF voltage_mv >= BATTERY_VOLTAGE_MIN_MV
                 THEN linear_interpolate(voltage_mv, BATTERY_VOLTAGE_MIN_MV, 0,
                                         BATTERY_VOLTAGE_CRIT_MV, 10)
            ELSE 0
        clamped == IF percentage > 100 THEN 100
                   ELSE IF percentage < 0 THEN 0 ELSE percentage
    IN  clamped % (UINT8_MAX + 1)

hal_battery_voltage_to_percentage(voltage_mv) ==
    LET percentage ==
            IF voltage_mv >= BATTERY_VOLTAGE_MAX_MV THEN 100
            ELSE IF voltage_mv >= BATTERY_VOLTAGE_GOOD_MV
                 THEN linear_interpolate(voltage_mv, BATTERY_VOLTAGE_GOOD_MV, 70,
                                         BATTERY_VOLTAGE_MAX_MV, 100)
            ELSE IF voltage_mv >= BATTERY_VOLTAGE_LOW_MV
                 THEN linear_interpolate(voltage_mv, BATTERY_VOLTAGE_LOW_MV, 30,
                                         BATTERY_VOLTAGE_GOOD_MV, 70)
            ELSE IF voltage_mv >= BATTERY_VOLTAGE_CRIT_MV
                 THEN linear_interpolate(voltage_mv, BATTERY_VOLTAGE_CRIT_MV, 10,
                                         BATTERY_VOLTAGE_LOW_MV, 30)
            ELSE IF voltage_mv >= BATTERY_VOLTAGE_MIN_MV
                 THEN linear_interpolate(voltage_mv, BATTERY_VOLTAGE_MIN_MV, 0,
                                         BATTERY_VOLTAGE_CRIT_MV, 10)
            ELSE 0
        clamped == IF percentage > 100 THEN 100
                   ELSE IF percentage < 0 THEN 0 ELSE percentage
    IN  clamped % (UINT8_MAX + 1)

\* mutant: the boundary values fall to the upper tier
hal_battery_percentage_to_state_inclusive(percentage) ==
    IF percentage >= 70 THEN HAL_BATTERY_STATE_GOOD
    ELSE IF percentage >= 30 THEN HAL_BATTERY_STATE_MEDIUM
    ELSE IF percentage >= 10 THEN HAL_BATTERY_STATE_LOW
    ELSE HAL_BATTERY_STATE_CRITICAL

hal_battery_percentage_to_state(percentage) ==
    IF percentage > 70 THEN HAL_BATTERY_STATE_GOOD
    ELSE IF percentage > 30 THEN HAL_BATTERY_STATE_MEDIUM
    ELSE IF percentage > 10 THEN HAL_BATTERY_STATE_LOW
    ELSE HAL_BATTERY_STATE_CRITICAL

\* ptr_ok: voltage_mv is not NULL
hal_battery_read_voltage(s, ptr_ok, samples) ==
    IF ~s.battery_initialized THEN Return(s, HAL_BATTERY_ERROR_STATE)
    ELSE IF ~ptr_ok THEN Return(s, HAL_BATTERY_ERROR_READ)
    ELSE LET r == adc_read_with_oversampling(s, samples)
         IN  IF r.ret < 0 THEN Return(r, HAL_BATTERY_ERROR_READ)
             ELSE Return(r, HAL_BATTERY_SUCCESS)

\* info_ok: info is not NULL.  The voltage is read into a local and the
\* caller's structure is written only after a successful read.
hal_battery_get_info(s, info_ok, samples) ==
    IF ~s.battery_initialized THEN Return(s, HAL_BATTERY_ERROR_STATE)
    ELSE IF ~info_ok THEN Return(s, HAL_BATTERY_ERROR_READ)
    ELSE LET r == hal_battery_read_voltage([s EXCEPT !.out = <<>>], TRUE, samples)
         IN  IF r.ret # HAL_BATTERY_SUCCESS
             THEN Return([r EXCEPT !.out = s.out], r.ret)
             ELSE LET voltage_mv == r.out[1]
                      percentage == hal_battery_voltage_to_percentage(voltage_mv)
                      state == hal_battery_percentage_to_state(percentage)
                  IN  Return([r EXCEPT
                                 !.out = <<voltage_mv, percentage, state>>,
                                 !.last_reading =
                                     [voltage_mv |-> voltage_mv,
                                      percentage |-> percentage,
                                      state |-> state]],
                             HAL_BATTERY_SUCCESS)

\* dev_ready: device_is_ready(adc_dev); setup_ok: adc_channel_setup returned 0.
\* The first reading goes to a local; its failure is only logged.
hal_battery_init(s, dev_ready, setup_ok, samples) ==
    IF s.battery_initialized THEN Return(s, HAL_BATTERY_SUCCESS)
    ELSE IF ~dev_ready THEN Return(s, HAL_BATTERY_ERROR_INIT)
    ELSE IF ~setup_ok
         THEN Return(Call(s, "adc_channel_setup", -1), HAL_BATTERY_ERROR_INIT)
    ELSE LET s1 == [Call(s, "adc_channel_setup", 0)
                       EXCEPT !.battery_initialized = TRUE]
             r == hal_battery_get_info(s1, TRUE, samples)
         IN  Return([r EXCEPT !.out = s.out], HAL_BATTERY_SUCCESS)

\* returns a bool: 1 for true, 0 for false
hal_battery_is_critical(s, samples) ==
    IF ~s.battery_initialized THEN Return(s, 0)
    ELSE LET r == hal_battery_get_info(s, TRUE, samples)
         IN  IF r.ret # HAL_BATTERY_SUCCESS THEN Return([r EXCEPT !.out = s.out], 0)
             ELSE Return([r EXCEPT !.out = s.out],
                         IF r.out[3] = HAL_BATTERY_STATE_CRITICAL THEN 1 ELSE 0)

(***************************************************************************)
(* hal/buzzer.c                                                            *)
(***************************************************************************)
Min(a, b) == IF a < b THEN a ELSE b

\* (PWM_PERIOD_NS * intensity) / 100 after the clamp to 100; the product is at
\* most 2 000 000 000, which a uint32 holds
intensity_to_pulse_ns(intensity) ==
    (PWM_PERIOD_NS * Min(intensity, 100)) \div 100

\* pwm_set_dt on the device that accepted the same period at init: the pulse
\* never exceeds the period, so the driver accepts it.
pwm_set_intensity(s, intensity) ==
    [Call(s, "pwm_set_dt", intensity_to_pulse_ns(intensity))
        EXCEPT !.pwm_pulse = intensity_to_pulse_ns(intensity)]

\* mutant: a pending toggle is replaced (k_work_reschedule)
k_work_schedule_replaces(s, delay_ms) ==
    [Call(s, "k_work_schedule", delay_ms)
        EXCEPT !.pattern_intermittent_work =
                   IF delay_ms = 0 THEN "queued" ELSE "delayed"]

\* k_work_schedule: does nothing when the item is already scheduled or queued
k_work_schedule(s, delay_ms) ==
    IF s.pattern_intermittent_work # "idle"
    THEN Call(s, "k_work_schedule", -1)
    ELSE [Call(s, "k_work_schedule", delay_ms)
            EXCEPT !.pattern_intermittent_work =
                       IF delay_ms = 0 THEN "queued" ELSE "delayed"]

\* k_work_cancel_delayable: takes the item off the timer and the queue; while
\* its handler is running the item is marked as being cancelled, and the
\* kernel rejects its resubmission until the handler has returned
k_work_cancel_delayable(s) ==
    [Call(s, "k_work_cancel_delayable", 0)
        EXCEPT !.pattern_intermittent_work =
                   IF s.pc.work # "idle" THEN "canceling" ELSE "idle"]

\* mutant: the handler toggles once and does not reschedule
pattern_intermittent_handler_once(s) ==
    IF ~s.pattern_intermittent_active
    THEN pwm_set_intensity(s, 0)
    ELSE LET s1 == [s EXCEPT !.handler_state = ~s.handler_state]
         IN  IF s1.handler_state
             THEN pwm_set_intensity(s1, s1.current_intensity)
             ELSE pwm_set_intensity(s1, 0)

pattern_intermittent_handler(s) ==
    IF ~s.pattern_intermittent_active
    THEN pwm_set_intensity(s, 0)
    ELSE LET s1 == [s EXCEPT !.handler_state = ~s.handler_state]
             s2 == IF s1.handler_state
                   THEN pwm_set_intensity(s1, s1.current_intensity)
                   ELSE pwm_set_intensity(s1, 0)
         IN  k_work_schedule(s2, PATTERN_INTERMITTENT_PERIOD_MS)

\* mutant: the output is left as the last toggle set it
stop_intermittent_keeps_output(s) ==
    k_work_cancel_delayable([s EXCEPT !.pattern_intermittent_active = FALSE])

\* mutant: the pending toggle is not cancelled
stop_intermittent_keeps_timer(s) ==
    pwm_set_intensity([s EXCEPT !.pattern_intermittent_active = FALSE], 0)

\* mutant: a deactivation starts the on/off flag over
stop_intermittent_resets_phase(s) ==
    pwm_set_intensity(
        k_work_cancel_delayable([s EXCEPT !.pattern_intermittent_active = FALSE,
                                          !.handler_state = FALSE]),
        0)

stop_intermittent(s) ==
    pwm_set_intensity(
        k_work_cancel_delayable([s EXCEPT !.pattern_intermittent_active = FALSE]),
        0)

\* mutant: the intensity is checked only when the pattern is activated
hal_buzzer_set_intermittent_stops_unchecked(s, active, intensity) ==
    IF ~s.buzzer_initialized THEN Return(s, HAL_BUZZER_ERROR_STATE)
    ELSE IF active
         THEN IF intensity > 100 THEN Return(s, HAL_BUZZER_ERROR_INVALID)
              ELSE Return(k_work_schedule(
                             [s EXCEPT !.current_intensity = intensity,
                                       !.pattern_intermittent_active = TRUE], 0),
                          HAL_BUZZER_SUCCESS)
         ELSE Return(stop_intermittent(s), HAL_BUZZER_SUCCESS)

hal_buzzer_set_intermittent(s, active, intensity) ==
    IF ~s.buzzer_initialized THEN Return(s, HAL_BUZZER_ERROR_STATE)
    ELSE IF intensity > 100 THEN Return(s, HAL_BUZZER_ERROR_INVALID)
    ELSE IF active
         THEN Return(k_work_schedule(
                        [s EXCEPT !.current_intensity = intensity,
                                  !.pattern_intermittent_active = TRUE], 0),
                     HAL_BUZZER_SUCCESS)
         ELSE Return(stop_intermittent(s), HAL_BUZZER_SUCCESS)

\* dev_ready: device_is_ready(pwm_led.dev); pwm_ok: the first pwm_set_dt
hal_buzzer_init(s, dev_ready, pwm_ok) ==
    IF s.buzzer_initialized THEN Return(s, HAL_BUZZER_SUCCESS)
    ELSE IF ~dev_ready THEN Return(s, HAL_BUZZER_ERROR_INIT)
    ELSE IF ~pwm_ok THEN Return(Call(s, "pwm_set_dt", -1), HAL_BUZZER_ERROR_INIT)
    ELSE Return([pwm_set_intensity(s, 0)
                    EXCEPT !.current_intensity = HAL_BUZZER_INTENSITY_MEDIUM,
                           !.pattern_intermittent_active = FALSE,
                           !.buzzer_initialized = TRUE],
                HAL_BUZZER_SUCCESS)

(***************************************************************************)
(* main.c: the application callbacks                                       *)
(***************************************************************************)
on_ble_connected(s) ==
    [Deliver(s, "connected", 0) EXCEPT !.led_azul = 0, !.led_verde = 1]

\* mutant: the coordinator forgets to stop the buzzer
on_ble_disconnected_keeps_buzzer(s, reason) ==
    [Deliver(s, "disconnected", reason) EXCEPT !.led_verde = 0]

on_ble_disconnected(s, reason) ==
    [hal_buzzer_set_intermittent(Deliver(s, "disconnected", reason), FALSE, 0)
        EXCEPT !.led_verde = 0]

on_ble_adv_started(s) ==
    [Deliver(s, "adv_started", 0) EXCEPT !.led_azul = 1]

on_ble_adv_stopped(s) == Deliver(s, "adv_stopped", 0)

\* mutant: the written byte is taken as the intensity
on_buzzer_intermittent_write_payload_intensity(s, buzzer_state) ==
    LET b == IF buzzer_state THEN 1 ELSE 0
    IN  hal_buzzer_set_intermittent(
            Call(Deliver(s, "buzzer_intermittent", b),
                 "hal_buzzer_set_intermittent", b),
            buzzer_state, b)

\* the result of hal_buzzer_set_intermittent is only logged
on_buzzer_intermittent_write(s, buzzer_state) ==
    hal_buzzer_set_intermittent(
        Call(Deliver(s, "buzzer_intermittent", IF buzzer_state THEN 1 ELSE 0),
             "hal_buzzer_set_intermittent", HAL_BUZZER_INTENSITY_MEDIUM),
        buzzer_state, HAL_BUZZER_INTENSITY_MEDIUM)

(***************************************************************************)
(* hal/ble.c                                                               *)
(***************************************************************************)
MS_TO_BLE_UNITS(ms) == (ms * 8) \div 5

\* k_work_submit: queues the item; a queued item stays queued once
k_work_submit(s) == [Call(s, "k_work_submit", 0) EXCEPT !.adv_work = TRUE]

ble_conn_ref(s, conn) ==
    [Call(s, "bt_conn_ref", conn) EXCEPT !.ble_refs[conn] = @ + 1]

ble_conn_unref(s, conn) ==
    [Call(s, "bt_conn_unref", conn) EXCEPT !.ble_refs[conn] = @ - 1]

\* mutant: the stale reference is overwritten without being released
on_connected_leaks_stale(s, conn, err) ==
    IF err # 0 THEN k_work_submit(s)
    ELSE LET s2 == [ble_conn_ref(s, conn)
                        EXCEPT !.ble_current_conn = conn,
                               !.current_state = "CONNECTED"]
         IN  IF s2.user_callbacks = "app" THEN on_ble_connected(s2) ELSE s2

on_connected(s, conn, err) ==
    IF err # 0 THEN k_work_submit(s)
    ELSE LET s1 == IF s.ble_current_conn # NULL
                   THEN ble_conn_unref(s, s.ble_current_conn)
                   ELSE s
             s2 == [ble_conn_ref(s1, conn)
                        EXCEPT !.ble_current_conn = conn,
                               !.current_state = "CONNECTED"]
         IN  IF s2.user_callbacks = "app" THEN on_ble_connected(s2) ELSE s2

\* mutant: the reference is kept over the disconnect
on_disconnected_keeps_reference(s, reason) ==
    LET s2 == [s EXCEPT !.current_state = "READY"]
    IN  IF s2.user_callbacks = "app" THEN on_ble_disconnected(s2, reason) ELSE s2

on_disconnected(s, reason) ==
    LET s1 == IF s.ble_current_conn # NULL
              THEN [ble_conn_unref(s, s.ble_current_conn)
                        EXCEPT !.ble_current_conn = NULL]
              ELSE s
        s2 == [s1 EXCEPT !.current_state = "READY"]
    IN  IF s2.user_callbacks = "app" THEN on_ble_disconnected(s2, reason) ELSE s2

\* mutant: the recycle event is only logged
on_recycled_ignores(s) == s

on_recycled(s) == k_work_submit(s)

\* mutant: the handler always starts with the default parameters
AdvParamUsed_defaults(s) ==
    [options |-> BT_LE_ADV_OPT_CONN + BT_LE_ADV_OPT_USE_IDENTITY,
     interval_min |-> MS_TO_BLE_UNITS(DEFAULT_ADV_INTERVAL_MIN_MS),
     interval_max |-> MS_TO_BLE_UNITS(DEFAULT_ADV_INTERVAL_MAX_MS)]

\* the parameters the handler hands to bt_le_adv_start
AdvParamUsed(s) ==
    IF s.adv_param THEN s.adv_param_storage
    ELSE [options |-> BT_LE_ADV_OPT_CONN + BT_LE_ADV_OPT_USE_IDENTITY,
          interval_min |-> MS_TO_BLE_UNITS(DEFAULT_ADV_INTERVAL_MIN_MS),
          interval_max |-> MS_TO_BLE_UNITS(DEFAULT_ADV_INTERVAL_MAX_MS)]

\* mutant: a refused start is reported as the end of advertising
adv_work_handler_reports(s, start_ok) ==
    IF s.current_state = "CONNECTED" THEN s
    ELSE LET s1 == Call(s, "bt_le_adv_start", AdvParamUsed(s)) IN
         IF ~start_ok
         THEN LET s2 == [s1 EXCEPT !.current_state = "READY"]
              IN  IF s2.user_callbacks = "app" THEN on_ble_adv_stopped(s2) ELSE s2
         ELSE LET s2 == [s1 EXCEPT !.ll_adv = TRUE,
                                   !.current_state = "ADVERTISING"]
              IN  IF s2.user_callbacks = "app" THEN on_ble_adv_started(s2) ELSE s2

\* mutant: the handler does not look at the state
adv_work_handler_unguarded(s, start_ok) ==
    LET s1 == Call(s, "bt_le_adv_start", AdvParamUsed(s)) IN
    IF ~start_ok THEN s1
    ELSE LET s2 == [s1 EXCEPT !.ll_adv = TRUE, !.current_state = "ADVERTISING"]
         IN  IF s2.user_callbacks = "app" THEN on_ble_adv_started(s2) ELSE s2

\* start_ok: bt_le_adv_start returned 0
adv_work_handler(s, start_ok) ==
    IF s.current_state = "CONNECTED" THEN s
    ELSE LET s1 == Call(s, "bt_le_adv_start", AdvParamUsed(s)) IN
         IF ~start_ok THEN s1
         ELSE LET s2 == [s1 EXCEPT !.ll_adv = TRUE,
                                   !.current_state = "ADVERTISING"]
              IN  IF s2.user_callbacks = "app" THEN on_ble_adv_started(s2) ELSE s2

\* mutant: a later call initialises again
hal_ble_init_again(s, name, callbacks, enable_ok) ==
    IF name = -1 THEN Return(s, HAL_BLE_ERROR_INVALID)
    ELSE IF name > MAX_DEVICE_NAME_LEN THEN Return(s, HAL_BLE_ERROR_INVALID)
    ELSE LET s1 == [s EXCEPT !.device_name = Min(name, MAX_DEVICE_NAME_LEN),
                             !.user_callbacks =
                                 IF callbacks # "null" THEN callbacks ELSE @]
             s2 == Call(s1, "bt_enable", 0)
         IN  IF ~enable_ok THEN Return(s2, HAL_BLE_ERROR_INIT)
             ELSE Return([Call(s2, "bt_conn_cb_register", 0)
                             EXCEPT !.ll_enabled = TRUE,
                                    !.current_state = "READY",
                                    !.ble_initialized = TRUE],
                         HAL_BLE_SUCCESS)

\* mutant: a name that does not fit is cut to the buffer instead of refused
hal_ble_init_truncates_name(s, name, callbacks, enable_ok) ==
    IF s.ble_initialized THEN Return(s, HAL_BLE_SUCCESS)
    ELSE IF name = -1 THEN Return(s, HAL_BLE_ERROR_INVALID)
    ELSE LET s1 == [s EXCEPT !.device_name = Min(name, MAX_DEVICE_NAME_LEN),
                             !.user_callbacks =
                                 IF callbacks # "null" THEN callbacks ELSE @]
             s2 == Call(s1, "bt_enable", 0)
         IN  IF ~enable_ok THEN Return(s2, HAL_BLE_ERROR_INIT)
             ELSE Return([Call(s2, "bt_conn_cb_register", 0)
                             EXCEPT !.ll_enabled = TRUE,
                                    !.current_state = "READY",
                                    !.ble_initialized = TRUE],
                         HAL_BLE_SUCCESS)

\* name: length of the string, -1 for a NULL pointer; callbacks: "app" or "null";
\* enable_ok: bt_enable returned 0
hal_ble_init(s, name, callbacks, enable_ok) ==
    IF s.ble_initialized THEN Return(s, HAL_BLE_SUCCESS)
    ELSE IF name = -1 THEN Return(s, HAL_BLE_ERROR_INVALID)
    ELSE IF name > MAX_DEVICE_NAME_LEN THEN Return(s, HAL_BLE_ERROR_INVALID)
    ELSE LET s1 == [s EXCEPT !.device_name = Min(name, MAX_DEVICE_NAME_LEN),
                             !.user_callbacks =
                                 IF callbacks # "null" THEN callbacks ELSE @]
             s2 == Call(s1, "bt_enable", 0)
         IN  IF ~enable_ok THEN Return(s2, HAL_BLE_ERROR_INIT)
             ELSE Return([Call(s2, "bt_conn_cb_register", 0)
                             EXCEPT !.ll_enabled = TRUE,
                                    !.current_state = "READY",
                                    !.ble_initialized = TRUE],
                         HAL_BLE_SUCCESS)

\* mutant: the order of the two intervals is not checked
AdvParamsInvalid_ignores_order(p) ==
    \/ p.interval_min_ms < ADV_INTERVAL_MIN_MS
    \/ p.interval_min_ms > ADV_INTERVAL_MAX_MS
    \/ p.interval_max_ms < ADV_INTERVAL_MIN_MS
    \/ p.interval_max_ms > ADV_INTERVAL_MAX_MS

\* mutant: the limits of the range are rejected
AdvParamsInvalid_excludes_limits(p) ==
    \/ p.interval_min_ms <= ADV_INTERVAL_MIN_MS
    \/ p.interval_min_ms >= ADV_INTERVAL_MAX_MS
    \/ p.interval_max_ms <= ADV_INTERVAL_MIN_MS
    \/ p.interval_max_ms >= ADV_INTERVAL_MAX_MS
    \/ p.interval_min_ms > p.interval_max_ms

AdvParamsInvalid(p) ==
    \/ p.interval_min_ms < ADV_INTERVAL_MIN_MS
    \/ p.interval_min_ms > ADV_INTERVAL_MAX_MS
    \/ p.interval_max_ms < ADV_INTERVAL_MIN_MS
    \/ p.interval_max_ms > ADV_INTERVAL_MAX_MS
    \/ p.interval_min_ms > p.interval_max_ms

\* mutant: the config is validated before the state is looked at
hal_ble_start_advertising_validates_first(s, p) ==
    IF ~s.ble_initialized THEN Return(s, HAL_BLE_ERROR_STATE)
    ELSE IF p.present /\ AdvParamsInvalid(p) THEN Return(s, HAL_BLE_ERROR_INVALID)
    ELSE IF s.current_state = "CONNECTED" THEN Return(s, HAL_BLE_ERROR_STATE)
    ELSE IF s.current_state = "ADVERTISING" THEN Return(s, HAL_BLE_SUCCESS)
    ELSE LET s1 == IF p.present
                   THEN [s EXCEPT !.adv_param = TRUE,
                                  !.adv_param_storage =
                                      [options |->
                                           (IF p.connectable THEN BT_LE_ADV_OPT_CONN ELSE 0)
                                         + (IF p.use_identity THEN BT_LE_ADV_OPT_USE_IDENTITY ELSE 0),
                                       interval_min |-> MS_TO_BLE_UNITS(p.interval_min_ms),
                                       interval_max |-> MS_TO_BLE_UNITS(p.interval_max_ms)]]
                   ELSE [s EXCEPT !.adv_param = FALSE]
         IN  Return(k_work_submit(s1), HAL_BLE_SUCCESS)

\* mutant: the check for an existing connection is missing
hal_ble_start_advertising_unguarded(s, p) ==
    IF ~s.ble_initialized THEN Return(s, HAL_BLE_ERROR_STATE)
    ELSE IF s.current_state = "ADVERTISING" THEN Return(s, HAL_BLE_SUCCESS)
    ELSE IF p.present /\ AdvParamsInvalid(p) THEN Return(s, HAL_BLE_ERROR_INVALID)
    ELSE Return(k_work_submit([s EXCEPT !.adv_param = FALSE]), HAL_BLE_SUCCESS)

\* p.present = FALSE stands for adv_params == NULL
hal_ble_start_advertising(s, p) ==
    IF ~s.ble_initialized THEN Return(s, HAL_BLE_ERROR_STATE)
    ELSE IF s.current_state = "CONNECTED" THEN Return(s, HAL_BLE_ERROR_STATE)
    ELSE IF s.current_state = "ADVERTISING" THEN Return(s, HAL_BLE_SUCCESS)
    ELSE IF p.present /\ AdvParamsInvalid(p) THEN Return(s, HAL_BLE_ERROR_INVALID)
    ELSE LET s1 == IF p.present
                   THEN [s EXCEPT !.adv_param = TRUE,
                                  !.adv_param_storage =
                                      [options |->
                                           (IF p.connectable THEN BT_LE_ADV_OPT_CONN ELSE 0)
                                         + (IF p.use_identity THEN BT_LE_ADV_OPT_USE_IDENTITY ELSE 0),
                                       interval_min |-> MS_TO_BLE_UNITS(p.interval_min_ms),
                                       interval_max |-> MS_TO_BLE_UNITS(p.interval_max_ms)]]
                   ELSE [s EXCEPT !.adv_param = FALSE]
         IN  Return(k_work_submit(s1), HAL_BLE_SUCCESS)

\* mutant: the state is not checked before the stop
hal_ble_stop_advertising_unguarded(s, stop_ok) ==
    IF ~s.ble_initialized THEN Return(s, HAL_BLE_ERROR_STATE)
    ELSE LET s1 == Call(s, "bt_le_adv_stop", 0) IN
         IF ~stop_ok THEN Return(s1, HAL_BLE_ERROR_FAILED)
         ELSE LET s2 == [s1 EXCEPT !.ll_adv = FALSE, !.current_state = "READY"]
              IN  Return(IF s2.user_callbacks = "app" THEN on_ble_adv_stopped(s2) ELSE s2,
                         HAL_BLE_SUCCESS)

\* stop_ok: bt_le_adv_stop returned 0
hal_ble_stop_advertising(s, stop_ok) ==
    IF ~s.ble_initialized THEN Return(s, HAL_BLE_ERROR_STATE)
    ELSE IF s.current_state # "ADVERTISING" THEN Return(s, HAL_BLE_ERROR_STATE)
    ELSE LET s1 == Call(s, "bt_le_adv_stop", 0) IN
         IF ~stop_ok THEN Return(s1, HAL_BLE_ERROR_FAILED)
         ELSE LET s2 == [s1 EXCEPT !.ll_adv = FALSE, !.current_state = "READY"]
              IN  Return(IF s2.user_callbacks = "app" THEN on_ble_adv_stopped(s2) ELSE s2,
                         HAL_BLE_SUCCESS)

\* mutant: the reference is dropped and the state left at once
hal_ble_disconnect_releases(s, req_ok) ==
    IF ~s.ble_initialized THEN Return(s, HAL_BLE_ERROR_STATE)
    ELSE IF s.ble_current_conn = NULL THEN Return(s, HAL_BLE_ERROR_NOT_CONNECTED)
    ELSE LET s1 == Call(s, "bt_conn_disconnect", s.ble_current_conn) IN
         IF ~req_ok THEN Return(s1, HAL_BLE_ERROR_FAILED)
         ELSE Return([ble_conn_unref(s1, s1.ble_current_conn)
                         EXCEPT !.ble_current_conn = NULL,
                                !.current_state = "READY"],
                     HAL_BLE_SUCCESS)

\* req_ok: bt_conn_disconnect returned 0
hal_ble_disconnect(s, req_ok) ==
    IF ~s.ble_initialized THEN Return(s, HAL_BLE_ERROR_STATE)
    ELSE IF s.ble_current_conn = NULL THEN Return(s, HAL_BLE_ERROR_NOT_CONNECTED)
    ELSE LET s1 == Call(s, "bt_conn_disconnect", s.ble_current_conn) IN
         IF ~req_ok THEN Return(s1, HAL_BLE_ERROR_FAILED)
         ELSE Return(s1, HAL_BLE_SUCCESS)

hal_ble_get_state(s) == s.current_state

hal_ble_is_connected(s) ==
    s.current_state = "CONNECTED" /\ s.ble_current_conn # NULL


(***************************************************************************)
(* gatt/battery_service.c                                                  *)
(***************************************************************************)
bas_conn_ref(s, conn) ==
    [Call(s, "bas_bt_conn_ref", conn) EXCEPT !.bas_refs[conn] = @ + 1]

bas_conn_unref(s, conn) ==
    [Call(s, "bas_bt_conn_unref", conn) EXCEPT !.bas_refs[conn] = @ - 1]

\* mutant: the bridge keeps the connection of a failed attempt too
connected_cb_unchecked(s, conn, err) ==
    LET s1 == IF s.bas_current_conn # NULL
              THEN bas_conn_unref(s, s.bas_current_conn)
              ELSE s
    IN  [bas_conn_ref(s1, conn) EXCEPT !.bas_current_conn = conn]

connected_cb(s, conn, err) ==
    IF err # 0 THEN s
    ELSE LET s1 == IF s.bas_current_conn # NULL
                   THEN bas_conn_unref(s, s.bas_current_conn)
                   ELSE s
         IN  [bas_conn_ref(s1, conn) EXCEPT !.bas_current_conn = conn]

\* mutant: the subscription survives the disconnect
disconnected_cb_keeps_subscription(s, reason) ==
    IF s.bas_current_conn # NULL
    THEN [bas_conn_unref(s, s.bas_current_conn) EXCEPT !.bas_current_conn = NULL]
    ELSE s

disconnected_cb(s, reason) ==
    LET s1 == IF s.bas_current_conn # NULL
              THEN [bas_conn_unref(s, s.bas_current_conn)
                        EXCEPT !.bas_current_conn = NULL]
              ELSE s
    IN  [s1 EXCEPT !.notify_enabled = FALSE]

battery_level_ccc_changed(s, value) ==
    [s EXCEPT !.notify_enabled = (value = BT_GATT_CCC_NOTIFY)]

\* mutant: the subscription is checked before the link
gatt_battery_service_notify_checks_swapped(s, percentage, push_err) ==
    IF ~s.notify_enabled THEN Return(s, -EACCES)
    ELSE IF s.bas_current_conn = NULL THEN Return(s, -ENOTCONN)
    ELSE LET s1 == Call([s EXCEPT !.battery_level = percentage],
                        "bt_gatt_notify", percentage)
         IN  IF push_err # 0 THEN Return(s1, push_err) ELSE Return(s1, 0)

\* push_err: what bt_gatt_notify returned, 0 when it accepted the push
gatt_battery_service_notify(s, percentage, push_err) ==
    IF s.bas_current_conn = NULL THEN Return(s, -ENOTCONN)
    ELSE IF ~s.notify_enabled THEN Return(s, -EACCES)
    ELSE LET s1 == Call([s EXCEPT !.battery_level = percentage],
                        "bt_gatt_notify", percentage)
         IN  IF push_err # 0 THEN Return(s1, push_err) ELSE Return(s1, 0)

gatt_battery_service_update(s, percentage) ==
    Return([s EXCEPT !.battery_level = percentage], 0)

\* the bytes of a uint8_t and of a uint16_t in memory (little-endian core)
BytesU8(v) == <<v % 2^8>>
BytesU16(v) == <<v % 2^8, (v \div 2^8) % 2^8>>

\* bt_gatt_attr_read: copies the value from offset on, as much as the buffer
\* takes, and returns the number of bytes copied
bt_gatt_attr_read(s, buf_len, offset, value) ==
    IF offset > Len(value) THEN Return(s, -BT_ATT_ERR_INVALID_OFFSET)
    ELSE LET len == Min(buf_len, Len(value) - offset)
         IN  Return([s EXCEPT !.out = SubSeq(value, offset + 1, offset + len)],
                    len)

\* main.c: on_battery_read only logs
on_battery_read(s, percentage) == Deliver(s, "battery_read", percentage)

\* hal_battery_get_info(&info) as the bridge calls it: the reading in .out
BridgeGetInfo(s, samples) ==
    hal_battery_get_info(Call([s EXCEPT !.out = <<>>],
                              "hal_battery_get_info", 0), TRUE, samples)

\* mutant: the cached level is answered without a reading
read_battery_level_cached(s, len, offset, samples) ==
    bt_gatt_attr_read(s, len, offset, BytesU8(s.battery_level))

read_battery_level(s, len, offset, samples) ==
    LET r == BridgeGetInfo(s, samples)
        s1 == IF r.ret = HAL_BATTERY_SUCCESS
              THEN LET s2 == [r EXCEPT !.battery_level = r.out[2], !.out = <<>>]
                   IN  IF s2.app_callbacks = "app"
                       THEN on_battery_read(s2, s2.battery_level)
                       ELSE s2
              ELSE [r EXCEPT !.out = <<>>]
    IN  bt_gatt_attr_read(s1, len, offset, BytesU8(s1.battery_level))

\* mutant: a failed reading clears the cached voltage
read_battery_voltage_clears(s, len, offset, samples) ==
    LET r == BridgeGetInfo(s, samples)
        s1 == IF r.ret = HAL_BATTERY_SUCCESS
              THEN [r EXCEPT !.battery_voltage = r.out[1], !.out = <<>>]
              ELSE [r EXCEPT !.battery_voltage = 0, !.out = <<>>]
    IN  bt_gatt_attr_read(s1, len, offset, BytesU16(s1.battery_voltage))

read_battery_voltage(s, len, offset, samples) ==
    LET r == BridgeGetInfo(s, samples)
        s1 == IF r.ret = HAL_BATTERY_SUCCESS
              THEN [r EXCEPT !.battery_voltage = r.out[1], !.out = <<>>]
              ELSE [r EXCEPT !.out = <<>>]
    IN  bt_gatt_attr_read(s1, len, offset, BytesU16(s1.battery_voltage))

read_battery_state(s, len, offset, samples) ==
    LET r == BridgeGetInfo(s, samples)
        s1 == IF r.ret = HAL_BATTERY_SUCCESS
              THEN [r EXCEPT !.battery_state = r.out[3] % 2^8, !.out = <<>>]
              ELSE [r EXCEPT !.out = <<>>]
    IN  bt_gatt_attr_read(s1, len, offset, BytesU8(s1.battery_state))

\* callbacks: "app" (main.c battery_callbacks) or "null"
gatt_battery_service_init(s, callbacks, samples) ==
    LET s0 == [s EXCEPT !.app_callbacks =
                            IF callbacks = "null" THEN "none" ELSE callbacks]
        r == BridgeGetInfo(s0, samples)
    IN  IF r.ret = HAL_BATTERY_SUCCESS
        THEN Return([r EXCEPT !.battery_level = r.out[2],
                              !.battery_voltage = r.out[1],
                              !.battery_state = r.out[3] % 2^8,
                              !.out = <<>>], 0)
        ELSE Return([r EXCEPT !.out = <<>>], 0)

(***************************************************************************)
(* gatt/buzzer_service.c                                                   *)
(***************************************************************************)
\* len bytes written at offset; val is the first byte of the buffer
write_buzzer_intermittent(s, len, offset, val) ==
    IF len # 1 THEN Return(s, -BT_ATT_ERR_INVALID_ATTRIBUTE_LEN)
    ELSE IF offset # 0 THEN Return(s, -BT_ATT_ERR_INVALID_OFFSET)
    ELSE IF s.buzzer_cb = "app"
         THEN IF val = 0 \/ val = 1
              THEN Return(on_buzzer_intermittent_write(s, val # 0), len)
              ELSE Return(s, -BT_ATT_ERR_VALUE_NOT_ALLOWED)
         ELSE Return(s, len)

\* callbacks: "app" (main.c buzzer_callbacks) or "null"
gatt_buzzer_service_init(s, callbacks) ==
    Return(IF callbacks # "null" THEN [s EXCEPT !.buzzer_cb = callbacks] ELSE s, 0)

(***************************************************************************)
(* Link-layer events: the stack calls the callbacks registered with        *)
(* bt_conn_cb_register (hal/ble.c) and then the ones defined with          *)
(* BT_CONN_CB_DEFINE (gatt/battery_service.c).                             *)
(***************************************************************************)
ConnectedEvent(s, conn, err) ==
    LET s0 == IF err = 0 THEN [s EXCEPT !.ll_link = conn, !.ll_adv = FALSE]
              ELSE [s EXCEPT !.ll_adv = FALSE]
        s1 == IF s0.ble_initialized THEN on_connected(s0, conn, err) ELSE s0
    IN  connected_cb(s1, conn, err)

DisconnectedEvent(s, reason) ==
    LET s0 == [s EXCEPT !.ll_link = NULL]
        s1 == IF s0.ble_initialized THEN on_disconnected(s0, reason) ELSE s0
    IN  disconnected_cb(s1, reason)

RecycledEvent(s) ==
    IF s.ble_initialized THEN on_recycled(s) ELSE s

\* the system work queue takes adv_work off the queue and runs its handler
RunAdvWork(s, start_ok) ==
    adv_work_handler([s EXCEPT !.adv_work = FALSE], start_ok)

\* the delay expires (if any) and the work queue runs the pattern handler
RunPatternWork(s) ==
    pattern_intermittent_handler([s EXCEPT !.pattern_intermittent_work = "idle"])

(***************************************************************************)
(* Inputs                                                                  *)
(***************************************************************************)
B(b) == IF b THEN 1 ELSE 0

\* device names by length; -1 is the NULL pointer
NameArgs == {-1, 0, 1, MAX_DEVICE_NAME_LEN, MAX_DEVICE_NAME_LEN + 1}
\* main.c passes CONFIG_BT_DEVICE_NAME, a name that fits
MainNameArgs == {MAX_DEVICE_NAME_LEN}

\* callback structures: the one of main.c, another one, the NULL pointer
MainCallbacks == {"app"}
ReinitCallbacks == {"app", "other", "null"}
CallbacksArg(callbacks) ==
    IF callbacks = "null" THEN 0 ELSE IF callbacks = "app" THEN 1 ELSE 2

NoAdvParams ==
    [present |-> FALSE, interval_min_ms |-> 0, interval_max_ms |-> 0,
     connectable |-> FALSE, use_identity |-> FALSE]

AdvParams(lo, hi, c, i) ==
    [present |-> TRUE, interval_min_ms |-> lo, interval_max_ms |-> hi,
     connectable |-> c, use_identity |-> i]

\* main.c passes {500, 500, true, true}
MainAdvParams == AdvParams(500, 500, TRUE, TRUE)

\* the limits of the accepted range and the values just outside it
ValidAdvArgs ==
    { MainAdvParams,
      AdvParams(ADV_INTERVAL_MIN_MS, ADV_INTERVAL_MAX_MS, TRUE, FALSE),
      AdvParams(ADV_INTERVAL_MIN_MS, ADV_INTERVAL_MIN_MS, FALSE, TRUE),
      AdvParams(ADV_INTERVAL_MAX_MS, ADV_INTERVAL_MAX_MS, FALSE, FALSE) }

InvalidAdvArgs ==
    { AdvParams(ADV_INTERVAL_MIN_MS - 1, 500, TRUE, TRUE),
      AdvParams(500, ADV_INTERVAL_MAX_MS + 1, TRUE, TRUE),
      AdvParams(600, 500, TRUE, TRUE) }

AdvArgs == {NoAdvParams} \cup ValidAdvArgs \cup InvalidAdvArgs
MainAdvArgs == {NoAdvParams, MainAdvParams}

AdvArgTuple(p) ==
    <<B(p.present), p.interval_min_ms, p.interval_max_ms,
      B(p.connectable), B(p.use_identity)>>

ConnErrs == {0, 62}
Reasons == {19}

\* <<active, intensity>>; main.c calls (false, 0) and (state, 50)
MainBuzzerArgs == {<<TRUE, HAL_BUZZER_INTENSITY_MEDIUM>>, <<FALSE, 0>>}
BuzzerArgs == BOOLEAN \X {0, HAL_BUZZER_INTENSITY_MEDIUM, 100, 101}

\* <<len, offset, first byte>>
MainWriteArgs == {<<1, 0, 0>>, <<1, 0, 1>>, <<1, 0, 2>>}
WriteArgs == {0, 1, 2} \X {0, 1} \X {0, 1, 2, 255}

CccVals == {0, 1, 2}
Percentages == {42}
\* results of bt_gatt_notify: accepted, or refused with an errno
NotifyErrs == {0, -EIO}

\* one adc_read: a failed read, a negative, the two ends of the valid range
\* and a saturated raw value
AdcSamples == {<<-EIO, 0>>, <<0, -1>>, <<0, 0>>, <<0, 2^ADC_RESOLUTION - 1>>,
               <<0, 2^ADC_RESOLUTION>>}
\* the ADC_SAMPLES reads of one acquisition
SampleRuns == [1..ADC_SAMPLES -> AdcSamples]
\* acquisitions whose reads all give the same
SteadyRuns == {[i \in 1..ADC_SAMPLES |-> x] : x \in AdcSamples}
NoRun == [i \in 1..ADC_SAMPLES |-> <<0, 0>>]

\* reads around the 10% breakpoint: a failed read and the raw values of 2199 mV
\* (9%), 2200 mV (10%) and 2215 mV (11%)
ThresholdSamples == {<<-EIO, 0>>, <<0, 2502>>, <<0, 2503>>, <<0, 2520>>}
ThresholdRuns == [1..ADC_SAMPLES -> ThresholdSamples]

\* the reads of an acquisition made for the bridge: all failed, all at
\* 2200 mV (10%, Critical) or all at 3600 mV (100%, Good)
BridgeRuns ==
    {[i \in 1..ADC_SAMPLES |-> x] :
        x \in {<<-EIO, 0>>, <<0, 2503>>, <<0, 2^ADC_RESOLUTION - 1>>}}

\* <<len, offset>> of a remote read: into a full ATT buffer from the start,
\* into one byte, and at offsets inside and past the value
ATT_BUF_LEN == 22
ReadArgs == {<<ATT_BUF_LEN, 0>>, <<1, 0>>, <<ATT_BUF_LEN, 1>>, <<ATT_BUF_LEN, 3>>}

RECURSIVE SampleArgs(_, _)
SampleArgs(samples, i) ==
    IF i = 0 THEN <<>> ELSE SampleArgs(samples, i - 1) \o samples[i]

\* arguments of the conversion functions: every uint16, every uint8
Voltages == 0..UINT16_MAX
PercentageArgs == 0..UINT8_MAX

\* every average of valid samples
RawValues == 0..(2^ADC_RESOLUTION - 1)

(***************************************************************************)
(* Initial state: the static initialisers                                  *)
(***************************************************************************)
InitFw ==
    /\ ble_initialized = FALSE
    /\ current_state = "IDLE"
    /\ user_callbacks = "none"
    /\ device_name = 0
    /\ ble_current_conn = NULL
    /\ adv_work = FALSE
    /\ adv_param = FALSE
    /\ adv_param_storage = [options |-> 0, interval_min |-> 0, interval_max |-> 0]
    /\ ll_enabled = FALSE
    /\ ll_adv = FALSE
    /\ ll_link = NULL
    /\ ble_refs = [c \in Conns |-> 0]
    /\ buzzer_initialized = FALSE
    /\ current_intensity = HAL_BUZZER_INTENSITY_MEDIUM
    /\ pattern_intermittent_active = FALSE
    /\ pattern_intermittent_work = "idle"
    /\ handler_state = FALSE
    /\ pwm_pulse = 0
    /\ pc = [work |-> "idle", link |-> "idle"]
    /\ toggles_after_stop = 0
    /\ battery_initialized = FALSE
    /\ last_reading = [voltage_mv |-> 0, percentage |-> 0,
                       state |-> HAL_BATTERY_STATE_UNKNOWN]
    /\ bas_current_conn = NULL
    /\ bas_refs = [c \in Conns |-> 0]
    /\ notify_enabled = FALSE
    /\ battery_level = 0
    /\ battery_voltage = 0
    /\ battery_state = 0
    /\ app_callbacks = "none"
    /\ buzzer_cb = "none"
    /\ led_verde = 0
    /\ led_azul = 0

Init ==
    /\ InitFw
    /\ ev = [op |-> "boot", arg |-> <<>>, ret |-> 0, calls |-> <<>>,
             cbs |-> <<>>, out |-> <<>>, pre |-> Pre]

(***************************************************************************)
(* Actions: application calls.  The outcome of a link-layer or driver      *)
(* primitive is drawn only in the states where the call reaches it.        *)
(***************************************************************************)
\* main.c passes &ble_callbacks; a later call may bring any structure
HalBleInitCall(names) ==
    \E name \in names :
        \E callbacks \in (IF ble_initialized THEN ReinitCallbacks
                          ELSE MainCallbacks) :
            \E enable_ok \in (IF ~ble_initialized /\ name \in 0..MAX_DEVICE_NAME_LEN
                              THEN BOOLEAN ELSE {TRUE}) :
                Commit("hal_ble_init",
                       <<name, B(enable_ok), CallbacksArg(callbacks)>>,
                       hal_ble_init(Cur, name, callbacks, enable_ok))

HalBleStartAdvertisingCall(args) ==
    \E p \in args :
        Commit("hal_ble_start_advertising", AdvArgTuple(p),
               hal_ble_start_advertising(Cur, p))

HalBleStopAdvertising ==
    \E stop_ok \in (IF ble_initialized /\ current_state = "ADVERTISING"
                    THEN BOOLEAN ELSE {TRUE}) :
        Commit("hal_ble_stop_advertising", <<B(stop_ok)>>,
               hal_ble_stop_advertising(Cur, stop_ok))

HalBleDisconnect ==
    \E req_ok \in (IF ble_initialized /\ ble_current_conn # NULL
                   THEN BOOLEAN ELSE {TRUE}) :
        Commit("hal_ble_disconnect", <<B(req_ok)>>,
               hal_ble_disconnect(Cur, req_ok))

\* returns a bool: 1 for true, 0 for false
HalBleIsConnected ==
    Commit("hal_ble_is_connected", <<>>,
           Return(Cur, B(hal_ble_is_connected(Cur))))

HalBuzzerInit ==
    \E dev_ready \in (IF buzzer_initialized THEN {TRUE} ELSE BOOLEAN) :
        \E pwm_ok \in (IF ~buzzer_initialized /\ dev_ready THEN BOOLEAN ELSE {TRUE}) :
            Commit("hal_buzzer_init", <<B(dev_ready), B(pwm_ok)>>,
                   hal_buzzer_init(Cur, dev_ready, pwm_ok))

HalBuzzerSetIntermittentCall(args) ==
    \E a \in args :
        Commit("hal_buzzer_set_intermittent", <<B(a[1]), a[2]>>,
               hal_buzzer_set_intermittent(Cur, a[1], a[2]))

GattBuzzerServiceInit ==
    \E callbacks \in {"app", "null"} :
        Commit("gatt_buzzer_service_init", <<B(callbacks = "app")>>,
               gatt_buzzer_service_init(Cur, callbacks))

GattBatteryServiceNotify ==
    \E percentage \in Percentages :
        \E push_err \in (IF bas_current_conn # NULL /\ notify_enabled
                         THEN NotifyErrs ELSE {0}) :
            Commit("gatt_battery_service_notify", <<percentage, push_err>>,
                   gatt_battery_service_notify(Cur, percentage, push_err))

GattBatteryServiceUpdate ==
    \E percentage \in Percentages :
        Commit("gatt_battery_service_update", <<percentage>>,
               gatt_battery_service_update(Cur, percentage))

\* the acquisition is reached only on an initialised gauge
GattBatteryServiceInit ==
    \E callbacks \in {"app", "null"} :
        \E samples \in (IF battery_initialized THEN BridgeRuns ELSE {NoRun}) :
            Commit("gatt_battery_service_init",
                   <<B(callbacks = "app")>> \o SampleArgs(samples, ADC_SAMPLES),
                   gatt_battery_service_init(Cur, callbacks, samples))

\* remote reads of the three characteristics arrive over the live link
ReadBatteryLevel ==
    /\ ll_link # NULL
    /\ \E a \in ReadArgs :
        \E samples \in (IF battery_initialized THEN BridgeRuns ELSE {NoRun}) :
            Commit("read_battery_level", a \o SampleArgs(samples, ADC_SAMPLES),
                   read_battery_level(Cur, a[1], a[2], samples))

ReadBatteryVoltage ==
    /\ ll_link # NULL
    /\ \E a \in ReadArgs :
        \E samples \in (IF battery_initialized THEN BridgeRuns ELSE {NoRun}) :
            Commit("read_battery_voltage", a \o SampleArgs(samples, ADC_SAMPLES),
                   read_battery_voltage(Cur, a[1], a[2], samples))

ReadBatteryState ==
    /\ ll_link # NULL
    /\ \E a \in ReadArgs :
        \E samples \in (IF battery_initialized THEN BridgeRuns ELSE {NoRun}) :
            Commit("read_battery_state", a \o SampleArgs(samples, ADC_SAMPLES),
                   read_battery_state(Cur, a[1], a[2], samples))

(***************************************************************************)
(* Actions: battery gauge.  The reads of the ADC are drawn only in the     *)
(* states where the call reaches the acquisition.                          *)
(***************************************************************************)
HalBatteryInit ==
    \E dev_ready \in (IF battery_initialized THEN {TRUE} ELSE BOOLEAN) :
        \E setup_ok \in (IF ~battery_initialized /\ dev_ready
                          THEN BOOLEAN ELSE {TRUE}) :
            \E samples \in (IF ~battery_initialized /\ dev_ready /\ setup_ok
                             THEN SteadyRuns ELSE {NoRun}) :
                Commit("hal_battery_init",
                       <<B(dev_ready), B(setup_ok)>>
                           \o SampleArgs(samples, ADC_SAMPLES),
                       hal_battery_init(Cur, dev_ready, setup_ok, samples))

HalBatteryReadVoltage ==
    \E ptr_ok \in BOOLEAN :
        \E samples \in (IF battery_initialized /\ ptr_ok
                         THEN SteadyRuns ELSE {NoRun}) :
            Commit("hal_battery_read_voltage",
                   <<B(ptr_ok)>> \o SampleArgs(samples, ADC_SAMPLES),
                   hal_battery_read_voltage(Cur, ptr_ok, samples))

HalBatteryGetInfo ==
    \E info_ok \in BOOLEAN :
        \E samples \in (IF battery_initialized /\ info_ok
                         THEN SampleRuns ELSE {NoRun}) :
            Commit("hal_battery_get_info",
                   <<B(info_ok)>> \o SampleArgs(samples, ADC_SAMPLES),
                   hal_battery_get_info(Cur, info_ok, samples))

HalBatteryIsCriticalCall(runs) ==
    \E samples \in (IF battery_initialized THEN runs ELSE {NoRun}) :
        Commit("hal_battery_is_critical", SampleArgs(samples, ADC_SAMPLES),
               hal_battery_is_critical(Cur, samples))

HalBatteryIsCritical == HalBatteryIsCriticalCall(SteadyRuns)
HalBatteryIsCriticalNear == HalBatteryIsCriticalCall(ThresholdRuns)

\* the conversion functions, applied to the argument drawn at the start
AdcRawToMv ==
    /\ ev.arg[1] \in RawValues
    /\ Commit("adc_raw_to_mv", ev.arg, Return(Cur, adc_raw_to_mv(ev.arg[1])))

HalBatteryVoltageToPercentage ==
    /\ ev.op \in {"input", "hal_battery_voltage_to_percentage",
                   "hal_battery_percentage_to_state"}
    /\ ev.arg[1] \in Voltages
    /\ Commit("hal_battery_voltage_to_percentage", ev.arg,
              Return(Cur, hal_battery_voltage_to_percentage(ev.arg[1])))

HalBatteryPercentageToState ==
    /\ ev.op \in {"input", "hal_battery_voltage_to_percentage",
                   "hal_battery_percentage_to_state"}
    /\ ev.arg[1] \in PercentageArgs
    /\ Commit("hal_battery_percentage_to_state", ev.arg,
              Return(Cur, hal_battery_percentage_to_state(ev.arg[1])))

(***************************************************************************)
(* Actions: work queue                                                     *)
(***************************************************************************)
\* bt_le_adv_start refuses (-EALREADY) while the radio is advertising
AdvWork ==
    /\ adv_work
    /\ \E start_ok \in (IF ll_adv THEN {FALSE} ELSE BOOLEAN) :
        Commit("adv_work_handler", <<B(start_ok)>>, RunAdvWork(Cur, start_ok))

PatternWork ==
    /\ pattern_intermittent_work # "idle"
    /\ Commit("pattern_intermittent_handler", <<>>, RunPatternWork(Cur))

(***************************************************************************)
(* Actions: link-layer events and remote GATT operations                   *)
(***************************************************************************)
Connected ==
    /\ ll_enabled
    /\ \E conn \in Conns, err \in ConnErrs :
        Commit("connected", <<conn, err>>, ConnectedEvent(Cur, conn, err))

Disconnected ==
    /\ ll_enabled
    /\ \E reason \in Reasons :
        Commit("disconnected", <<reason>>, DisconnectedEvent(Cur, reason))

Recycled ==
    /\ ll_enabled
    /\ Commit("recycled", <<>>, RecycledEvent(Cur))

\* remote GATT operations arrive over the live link
BuzzerWriteCall(args) ==
    /\ ll_link # NULL
    /\ \E w \in args :
        Commit("write_buzzer_intermittent", w,
               write_buzzer_intermittent(Cur, w[1], w[2], w[3]))

CccWrite ==
    /\ ll_link # NULL
    /\ \E value \in CccVals :
        Commit("battery_level_ccc_changed", <<value>>,
               battery_level_ccc_changed(Cur, value))

(***************************************************************************)
(* Spec: the whole firmware, with the arguments main.c uses                *)
(***************************************************************************)
HalBleInit == HalBleInitCall(MainNameArgs)
HalBleStartAdvertising == HalBleStartAdvertisingCall(MainAdvArgs)
HalBuzzerSetIntermittent == HalBuzzerSetIntermittentCall(MainBuzzerArgs)
BuzzerWrite == BuzzerWriteCall(MainWriteArgs)

Next ==
    \/ HalBleInit
    \/ HalBleStartAdvertising
    \/ HalBleStopAdvertising
    \/ HalBleDisconnect
    \/ HalBuzzerInit
    \/ HalBuzzerSetIntermittent
    \/ GattBuzzerServiceInit
    \/ GattBatteryServiceNotify
    \/ AdvWork
    \/ PatternWork
    \/ Connected
    \/ Disconnected
    \/ Recycled
    \/ BuzzerWrite
    \/ CccWrite

Spec == Init /\ [][Next]_vars

(***************************************************************************)
(* SpecBle: the connectivity manager alone, with every kind of argument    *)
(***************************************************************************)
HalBleInitAny == HalBleInitCall(NameArgs)
HalBleStartAdvertisingAny == HalBleStartAdvertisingCall(AdvArgs)

NextBle ==
    \/ HalBleInitAny
    \/ HalBleStartAdvertisingAny
    \/ HalBleStopAdvertising
    \/ HalBleDisconnect
    \/ AdvWork
    \/ Connected
    \/ Disconnected
    \/ Recycled

SpecBle == Init /\ [][NextBle]_vars

(***************************************************************************)
(* SpecLink: the connectivity manager over one link: the device advertises *)
(* only outside Connected, so a second link cannot come up, and only an    *)
(* established link can go down                                            *)
(***************************************************************************)
LinkConnected ==
    /\ ll_link = NULL
    /\ Connected

LinkDisconnected ==
    /\ ll_link # NULL
    /\ Disconnected

NextLink ==
    \/ HalBleInitAny
    \/ HalBleStartAdvertisingAny
    \/ HalBleStopAdvertising
    \/ HalBleDisconnect
    \/ HalBleIsConnected
    \/ AdvWork
    \/ LinkConnected
    \/ LinkDisconnected
    \/ Recycled

SpecLink == Init /\ [][NextLink]_vars

(***************************************************************************)
(* SpecRearm: the connectivity manager as main.c drives it, over one link; *)
(* the stack delivers the recycle event of a freed connection and the      *)
(* system work queue runs a queued work item                               *)
(***************************************************************************)
NextRearm ==
    \/ HalBleInit
    \/ HalBleStartAdvertising
    \/ HalBleStopAdvertising
    \/ HalBleDisconnect
    \/ AdvWork
    \/ LinkConnected
    \/ LinkDisconnected
    \/ Recycled

SpecRearm ==
    Init /\ [][NextRearm]_vars /\ WF_vars(Recycled) /\ WF_vars(AdvWork)

(***************************************************************************)
(* SpecBuzzer: the buzzer engine and its bridge, with every kind of        *)
(* argument, over a link that comes and goes                               *)
(***************************************************************************)
HalBuzzerSetIntermittentAny == HalBuzzerSetIntermittentCall(BuzzerArgs)
BuzzerWriteAny == BuzzerWriteCall(WriteArgs)

NextBuzzer ==
    \/ HalBleInit
    \/ Connected
    \/ Disconnected
    \/ HalBuzzerInit
    \/ HalBuzzerSetIntermittentAny
    \/ PatternWork
    \/ GattBuzzerServiceInit
    \/ BuzzerWriteAny

SpecBuzzer == Init /\ [][NextBuzzer]_vars

(***************************************************************************)
(* SpecRace: the toggle handler in the work context and stop_intermittent  *)
(* in the link-callback context, statement by statement: hal/buzzer.c has  *)
(* no lock, so the statements of the two contexts interleave freely.  Each *)
(* context is a single thread and runs one call at a time.                 *)
(***************************************************************************)
\* buzzer.c 128-132: the work queue takes the item and the handler tests
\* pattern_intermittent_active
HandlerCheck ==
    /\ pc.work = "idle"
    /\ pattern_intermittent_work \in {"queued", "delayed"}
    /\ LET s == [Cur EXCEPT !.pattern_intermittent_work = "idle"]
       IN  Commit("handler_check", <<B(pattern_intermittent_active)>>,
                  IF ~s.pattern_intermittent_active
                  THEN pwm_set_intensity(s, 0)
                  ELSE [s EXCEPT !.pc.work = "checked"])

\* buzzer.c 134-143: state = !state and the write of the output
HandlerToggle ==
    /\ pc.work = "checked"
    /\ LET s1 == [Cur EXCEPT !.handler_state = ~handler_state,
                             !.toggles_after_stop =
                                 IF @ < MaxToggles THEN @ + 1 ELSE @,
                             !.pc.work = "toggled"]
       IN  Commit("handler_toggle", <<B(pattern_intermittent_active)>>,
                  IF s1.handler_state
                  THEN pwm_set_intensity(s1, s1.current_intensity)
                  ELSE pwm_set_intensity(s1, 0))

\* buzzer.c 146-148: k_work_schedule and the return to the work queue, which
\* ends a cancellation that began during the run
HandlerReschedule ==
    /\ pc.work = "toggled"
    /\ LET s1 == k_work_schedule(Cur, PATTERN_INTERMITTENT_PERIOD_MS)
       IN  Commit("handler_reschedule", <<B(pattern_intermittent_active)>>,
                  [s1 EXCEPT !.pc.work = "idle",
                             !.pattern_intermittent_work =
                                 IF @ = "canceling" THEN "idle" ELSE @])

\* buzzer.c 161, reached from hal_buzzer_set_intermittent(false, 0) (195)
StopFlag ==
    /\ pc.link = "idle"
    /\ buzzer_initialized
    /\ Commit("stop_flag", <<>>,
              [Cur EXCEPT !.pattern_intermittent_active = FALSE,
                          !.toggles_after_stop = 0,
                          !.pc.link = "flagged"])

\* buzzer.c 162
StopCancel ==
    /\ pc.link = "flagged"
    /\ Commit("stop_cancel", <<>>,
              k_work_cancel_delayable([Cur EXCEPT !.pc.link = "cancelled"]))

\* buzzer.c 163 and the return of hal_buzzer_set_intermittent
StopSilence ==
    /\ pc.link = "cancelled"
    /\ Commit("stop_silence", <<>>,
              Return(pwm_set_intensity([Cur EXCEPT !.pc.link = "idle"], 0),
                     HAL_BUZZER_SUCCESS))

\* main.c 136: the activation by a remote write, in the link-callback context
Activate ==
    /\ pc.link = "idle"
    /\ HalBuzzerSetIntermittentCall({<<TRUE, HAL_BUZZER_INTENSITY_MEDIUM>>})

NextRace ==
    \/ HalBuzzerInit
    \/ Activate
    \/ HandlerCheck
    \/ HandlerToggle
    \/ HandlerReschedule
    \/ StopFlag
    \/ StopCancel
    \/ StopSilence

\* both contexts keep running: a started call finishes and the work queue
\* runs a pending item
SpecRace ==
    /\ Init
    /\ [][NextRace]_vars
    /\ WF_vars(HandlerCheck) /\ WF_vars(HandlerToggle)
    /\ WF_vars(HandlerReschedule)
    /\ WF_vars(StopCancel) /\ WF_vars(StopSilence)

(***************************************************************************)
(* SpecToggle: the buzzer as main.c drives it, over one link; the system   *)
(* work queue runs a work item that stays queued or scheduled              *)
(***************************************************************************)
NextToggle ==
    \/ HalBleInit
    \/ LinkConnected
    \/ LinkDisconnected
    \/ HalBuzzerInit
    \/ HalBuzzerSetIntermittent
    \/ PatternWork
    \/ GattBuzzerServiceInit
    \/ BuzzerWrite

SpecToggle == Init /\ [][NextToggle]_vars /\ WF_vars(PatternWork)

(***************************************************************************)
(* SpecBattery: the battery gauge, with every mix of failed, out-of-range  *)
(* and valid reads in one acquisition                                      *)
(***************************************************************************)
NextBattery ==
    \/ HalBatteryInit
    \/ HalBatteryReadVoltage
    \/ HalBatteryGetInfo
    \/ HalBatteryIsCritical

SpecBattery == Init /\ [][NextBattery]_vars

(***************************************************************************)
(* SpecCritical: the critical-battery check on readings around 10%         *)
(***************************************************************************)
NextCritical ==
    \/ HalBatteryInit
    \/ HalBatteryIsCriticalNear

SpecCritical == Init /\ [][NextCritical]_vars

(***************************************************************************)
(* SpecBridge: the battery bridge over one link: remote reads, the cached  *)
(* values and the gauge behind them                                        *)
(***************************************************************************)
NextBridge ==
    \/ HalBleInit
    \/ LinkConnected
    \/ LinkDisconnected
    \/ HalBatteryInit
    \/ GattBatteryServiceInit
    \/ GattBatteryServiceUpdate
    \/ GattBatteryServiceNotify
    \/ CccWrite
    \/ ReadBatteryLevel
    \/ ReadBatteryVoltage
    \/ ReadBatteryState

SpecBridge == Init /\ [][NextBridge]_vars

(***************************************************************************)
(* SpecConvert: the conversion functions of the gauge on every argument    *)
(***************************************************************************)
InitConvert ==
    /\ InitFw
    /\ \E v \in Voltages :
           ev = [op |-> "input", arg |-> <<v>>, ret |-> 0, calls |-> <<>>,
                 cbs |-> <<>>, out |-> <<>>, pre |-> Pre]

NextConvert ==
    \/ AdcRawToMv
    \/ HalBatteryVoltageToPercentage
    \/ HalBatteryPercentageToState

SpecConvert == InitConvert /\ [][NextConvert]_vars

(***************************************************************************)
(* Properties                                                              *)
(***************************************************************************)
IsOp(op) == ev.op = op
Index(f, a) ==
    CHOOSE i \in 1..Len(ev.calls) : ev.calls[i][1] = f /\ ev.calls[i][2] = a

\* C1: after any disconnect event, whatever the state before it, the manager
\* is Ready and holds no connection reference, the battery-level subscription
\* is off, the buzzer pattern is inactive and the buzzer output is 0.
C1_DisconnectResets ==
    IsOp("disconnected") =>
        /\ current_state = "READY"
        /\ ble_current_conn = NULL
        /\ \A c \in Conns : ble_refs[c] = 0
        /\ ~notify_enabled
        /\ ~pattern_intermittent_active
        /\ pwm_pulse = 0

\* a disconnect event that found the manager Connected, the client subscribed
\* and the buzzer sounding
C1_Witness ==
    /\ IsOp("disconnected")
    /\ ev.pre.current_state = "CONNECTED"
    /\ ev.pre.ble_current_conn # NULL
    /\ ev.pre.notify_enabled
    /\ ev.pre.pattern_intermittent_active
    /\ ev.pre.pwm_pulse > 0

\* C2: the manager holds at most one connection reference, the one named by
\* current_conn; a successful connect that finds a stale reference releases it
\* exactly once, before it takes the new one; a disconnect event that finds no
\* reference releases nothing.
C2_SingleReference ==
    /\ \A c \in Conns : ble_refs[c] = IF ble_current_conn = c THEN 1 ELSE 0
    /\ (IsOp("connected") /\ ev.arg[2] = 0 /\ ev.pre.ble_current_conn # NULL) =>
           /\ CountCalls("bt_conn_unref", ev.pre.ble_current_conn) = 1
           /\ CountCalls("bt_conn_ref", ev.arg[1]) = 1
           /\ Index("bt_conn_unref", ev.pre.ble_current_conn)
                  < Index("bt_conn_ref", ev.arg[1])
    /\ (IsOp("connected") /\ ev.arg[2] # 0) =>
           ~Called("bt_conn_ref") /\ ~Called("bt_conn_unref")
    /\ (IsOp("disconnected") /\ ev.pre.ble_current_conn # NULL) =>
           CountCalls("bt_conn_unref", ev.pre.ble_current_conn) = 1
    /\ (IsOp("disconnected") /\ ev.pre.ble_current_conn = NULL) =>
           ~Called("bt_conn_unref")
    /\ ~(IsOp("connected") \/ IsOp("disconnected")) =>
           ~Called("bt_conn_ref") /\ ~Called("bt_conn_unref")

\* a successful connect that found the reference of another connection
C2_Witness ==
    /\ IsOp("connected")
    /\ ev.arg[2] = 0
    /\ ev.pre.ble_current_conn # NULL
    /\ ev.pre.ble_current_conn # ev.arg[1]
    /\ ble_current_conn = ev.arg[1]

ValidOrAbsent(a) ==
    \/ a[1] = 0
    \/ /\ ADV_INTERVAL_MIN_MS <= a[2]
       /\ a[2] <= a[3]
       /\ a[3] <= ADV_INTERVAL_MAX_MS

\* C3: startAdvertising in state Ready, with no config or with any config with
\* 20 <= interval_min <= interval_max <= 10240, returns success and queues the
\* advertising work; when the work then runs before any connect and the link
\* layer accepts the start, the state is Advertising and adv_started has been
\* delivered.
C3_StartFromReady ==
    /\ (/\ IsOp("hal_ble_start_advertising")
        /\ ev.pre.current_state = "READY"
        /\ ValidOrAbsent(ev.arg)) =>
           /\ ev.ret = HAL_BLE_SUCCESS
           /\ Called("k_work_submit")
           /\ adv_work
           /\ current_state = "READY"
    /\ (/\ IsOp("adv_work_handler")
        /\ ev.pre.current_state = "READY"
        /\ ev.arg[1] = 1) =>
           /\ current_state = "ADVERTISING"
           /\ ll_adv
           /\ DeliveredWith("adv_started", 0)

\* the work queued by a start with the widest valid config has run and the
\* link layer accepted the start
C3_Witness ==
    /\ IsOp("adv_work_handler")
    /\ ev.pre.current_state = "READY"
    /\ ev.arg[1] = 1
    /\ adv_param
    /\ adv_param_storage.interval_min = MS_TO_BLE_UNITS(ADV_INTERVAL_MIN_MS)
    /\ adv_param_storage.interval_max = MS_TO_BLE_UNITS(ADV_INTERVAL_MAX_MS)
    /\ current_state = "ADVERTISING"

\* C4: startAdvertising in state Connected fails with InvalidState for every
\* config (valid, invalid or absent), queues no advertising work and changes
\* nothing: not the state, the connection reference or the stored parameters.
C4_StartWhileConnected ==
    (IsOp("hal_ble_start_advertising") /\ ev.pre.current_state = "CONNECTED") =>
        /\ ev.ret = HAL_BLE_ERROR_STATE
        /\ ev.calls = <<>>
        /\ ev.cbs = <<>>
        /\ FwRec = ev.pre

\* a start with a valid config, refused while Connected with parameters of an
\* earlier start in the storage
C4_Witness ==
    /\ IsOp("hal_ble_start_advertising")
    /\ ev.pre.current_state = "CONNECTED"
    /\ ValidOrAbsent(ev.arg)
    /\ ev.arg[1] = 1
    /\ ev.pre.adv_param
    /\ ev.pre.adv_param_storage.interval_max # MS_TO_BLE_UNITS(ev.arg[3])

\* C5: a connect event with err # 0 queues the advertising work again, takes
\* no connection reference and leaves the manager Ready, whether it was Ready
\* or Advertising before.
C5_FailedConnectLeavesReady ==
    (/\ IsOp("connected")
     /\ ev.arg[2] # 0
     /\ ev.pre.current_state \in {"READY", "ADVERTISING"}) =>
        /\ Called("k_work_submit")
        /\ adv_work
        /\ ~Called("bt_conn_ref")
        /\ ble_current_conn = ev.pre.ble_current_conn
        /\ current_state = "READY"

\* C6: a recycle event queues the advertising work in every state, and the
\* queued handler, run while the state is Connected, does nothing: no call of
\* the advertise primitive, no change of state, no adv_started.
C6_RecycleAndConnectedGuard ==
    /\ IsOp("recycled") =>
           /\ CountCalls("k_work_submit", 0) = 1
           /\ adv_work
           /\ FwRec = [ev.pre EXCEPT !.adv_work = TRUE]
    /\ (IsOp("adv_work_handler") /\ ev.pre.current_state = "CONNECTED") =>
           /\ ev.calls = <<>>
           /\ ev.cbs = <<>>
           /\ FwRec = [ev.pre EXCEPT !.adv_work = FALSE]

\* the work queued before a successful connect runs once the manager is
\* Connected, with a link layer that would have accepted the start
C6_Witness ==
    /\ IsOp("adv_work_handler")
    /\ ev.pre.current_state = "CONNECTED"
    /\ ev.pre.adv_work
    /\ ev.arg[1] = 1
    /\ current_state = "CONNECTED"

\* C7: the buzzer output is exactly 0 whenever the pattern is inactive.
C7_SilentWhenInactive ==
    ~pattern_intermittent_active => pwm_pulse = 0

\* a remote 0x00 write that found the pattern active and the output on
C7_Witness ==
    /\ IsOp("write_buzzer_intermittent")
    /\ ev.arg = <<1, 0, 0>>
    /\ ev.pre.pattern_intermittent_active
    /\ ev.pre.pwm_pulse > 0
    /\ ~pattern_intermittent_active

\* C8: setIntermittent(false, 0) after setIntermittent(true, 50), with any
\* number of handler runs in between, leaves the output at 0 and the timer
\* cancelled; as long as the pattern stays inactive no handler run is pending,
\* so none drives the output or reschedules itself.
C8_DeactivationStopsToggling ==
    /\ (/\ IsOp("hal_buzzer_set_intermittent")
        /\ ev.arg = <<0, 0>>
        /\ ev.pre.buzzer_initialized) =>
           /\ ev.ret = HAL_BUZZER_SUCCESS
           /\ Called("k_work_cancel_delayable")
           /\ ~pattern_intermittent_active
           /\ pattern_intermittent_work = "idle"
           /\ pwm_pulse = 0
    /\ ~pattern_intermittent_active =>
           /\ pattern_intermittent_work = "idle"
           /\ ~ENABLED PatternWork

\* setIntermittent(false, 0) that found the pattern active at intensity 50,
\* the output on and the next toggle scheduled
C8_Witness ==
    /\ IsOp("hal_buzzer_set_intermittent")
    /\ ev.arg = <<0, 0>>
    /\ ev.pre.pattern_intermittent_active
    /\ ev.pre.current_intensity = 50
    /\ ev.pre.pwm_pulse = intensity_to_pulse_ns(50)
    /\ ev.pre.pattern_intermittent_work = "delayed"
    /\ pwm_pulse = 0

NotifyChecks ==
    /\ ev.pre.bas_current_conn = NULL =>
           /\ ev.ret = -ENOTCONN
           /\ ev.calls = <<>>
           /\ FwRec = ev.pre
    /\ (ev.pre.bas_current_conn # NULL /\ ~ev.pre.notify_enabled) =>
           /\ ev.ret = -EACCES
           /\ ev.calls = <<>>
           /\ FwRec = ev.pre

\* C9 as stated: notify fails with NotConnected without a link (whatever the
\* subscription), with AccessDenied without a subscription, and otherwise
\* pushes the value and succeeds.
C9_NotifyAlwaysSucceeds ==
    IsOp("gatt_battery_service_notify") =>
        /\ NotifyChecks
        /\ (ev.pre.bas_current_conn # NULL /\ ev.pre.notify_enabled) =>
               /\ CountCalls("bt_gatt_notify", ev.arg[1]) = 1
               /\ ev.ret = 0

\* C9 as amended: with a link and a subscription, notify stores the value as
\* the battery level and pushes it once on the link; it returns success when
\* the link layer accepts the push and the link layer's error otherwise.
C9_NotifyResult ==
    IsOp("gatt_battery_service_notify") =>
        /\ NotifyChecks
        /\ (ev.pre.bas_current_conn # NULL /\ ev.pre.notify_enabled) =>
               /\ CountCalls("bt_gatt_notify", ev.arg[1]) = 1
               /\ battery_level = ev.arg[1]
               /\ FwRec = [ev.pre EXCEPT !.battery_level = ev.arg[1]]
               /\ ev.ret = ev.arg[2]

\* a notify on a subscribed link, accepted by the link layer, that replaced
\* the stored battery level
C9_Witness ==
    /\ IsOp("gatt_battery_service_notify")
    /\ ev.pre.bas_current_conn # NULL
    /\ ev.pre.notify_enabled
    /\ ev.pre.battery_level # ev.arg[1]
    /\ ev.ret = 0

\* C10: a write is rejected with InvalidLength when length # 1, InvalidOffset
\* when length = 1 and offset # 0, ValueNotAllowed when length = 1, offset = 0
\* and the byte is neither 0x00 nor 0x01, whether or not an application
\* callback is registered; a rejected write changes nothing and invokes no
\* callback.
C10_WriteRejections ==
    IsOp("write_buzzer_intermittent") =>
        /\ ev.arg[1] # 1 => ev.ret = -BT_ATT_ERR_INVALID_ATTRIBUTE_LEN
        /\ (ev.arg[1] = 1 /\ ev.arg[2] # 0) => ev.ret = -BT_ATT_ERR_INVALID_OFFSET
        /\ (ev.arg[1] = 1 /\ ev.arg[2] = 0 /\ ev.arg[3] \notin {0, 1}) =>
               ev.ret = -BT_ATT_ERR_VALUE_NOT_ALLOWED
        /\ ev.ret < 0 => (ev.cbs = <<>> /\ FwRec = ev.pre)

\* C11: with the coordinator's callback registered and the buzzer engine
\* initialised (main.c does both before it advertises), a 1-byte write at
\* offset 0 of 0x00 or 0x01 returns 1 and forwards exactly one
\* setIntermittent(byte = 1, 50): 0x01 leaves the pattern active at intensity
\* 50 with a handler run pending, 0x00 leaves it inactive with the timer
\* cancelled and the output 0, whatever intensity was in effect before.
C11_ValidWriteForwards ==
    (/\ IsOp("write_buzzer_intermittent")
     /\ ev.arg[1] = 1 /\ ev.arg[2] = 0 /\ ev.arg[3] \in {0, 1}
     /\ ev.pre.buzzer_cb = "app"
     /\ ev.pre.buzzer_initialized) =>
        /\ ev.ret = 1
        /\ ev.cbs = << <<"buzzer_intermittent", ev.arg[3]>> >>
        /\ CountCalls("hal_buzzer_set_intermittent",
                      HAL_BUZZER_INTENSITY_MEDIUM) = 1
        /\ \A i \in 1..Len(ev.calls) :
               ev.calls[i][1] = "hal_buzzer_set_intermittent" =>
                   ev.calls[i][2] = HAL_BUZZER_INTENSITY_MEDIUM
        /\ ev.arg[3] = 1 =>
               /\ pattern_intermittent_active
               /\ current_intensity = HAL_BUZZER_INTENSITY_MEDIUM
               /\ pattern_intermittent_work # "idle"
        /\ ev.arg[3] = 0 =>
               /\ ~pattern_intermittent_active
               /\ pattern_intermittent_work = "idle"
               /\ pwm_pulse = 0

\* a 0x01 write that found the pattern inactive and another intensity stored
C11_Witness ==
    /\ IsOp("write_buzzer_intermittent")
    /\ ev.arg = <<1, 0, 1>>
    /\ ev.pre.buzzer_cb = "app"
    /\ ev.pre.buzzer_initialized
    /\ ~ev.pre.pattern_intermittent_active
    /\ ev.pre.current_intensity = 100
    /\ pattern_intermittent_active
    /\ current_intensity = HAL_BUZZER_INTENSITY_MEDIUM

\* the breakpoints of the discharge curve, <<millivolts, percentage>>
Breakpoints ==
    << <<2000, 0>>, <<2200, 10>>, <<2500, 30>>, <<2800, 70>>, <<3000, 100>> >>

\* voltages the table of examples names, with their percentages
TableExamples ==
    { <<1999, 0>>, <<2000, 0>>, <<2100, 5>>, <<2200, 10>>, <<2350, 20>>,
      <<2500, 30>>, <<2650, 50>>, <<2800, 70>>, <<2900, 85>>, <<3000, 100>>,
      <<3100, 100>> }

\* C12: for every uint16 voltage the percentage is 0 below 2000 mV and 100
\* above 3000 mV, is the breakpoint value at 2000, 2200, 2500, 2800 and 3000,
\* and between two adjacent breakpoints is y0 + (x - x0)(y1 - y0)/(x1 - x0)
\* with the quotient truncated; 1999 -> 0, 2100 -> 5, 2350 -> 20, 2650 -> 50,
\* 2900 -> 85, 3100 -> 100.
C12_VoltageToPercentage ==
    IsOp("hal_battery_voltage_to_percentage") =>
        LET x == ev.arg[1]
        IN  /\ x < 2000 => ev.ret = 0
            /\ x > 3000 => ev.ret = 100
            /\ \A i \in 1..Len(Breakpoints) :
                   x = Breakpoints[i][1] => ev.ret = Breakpoints[i][2]
            /\ \A i \in 1..(Len(Breakpoints) - 1) :
                   LET x0 == Breakpoints[i][1]
                       y0 == Breakpoints[i][2]
                       x1 == Breakpoints[i + 1][1]
                       y1 == Breakpoints[i + 1][2]
                   IN  (x0 < x /\ x < x1) =>
                           ev.ret = y0 + ((x - x0) * (y1 - y0)) \div (x1 - x0)
            /\ \A e \in TableExamples : x = e[1] => ev.ret = e[2]

\* a voltage between two breakpoints whose quotient is not whole:
\* 30 + (151 * 40) / 300 is 50.13
C12_Witness ==
    /\ IsOp("hal_battery_voltage_to_percentage")
    /\ ev.arg[1] = 2651
    /\ ev.ret = 50

ReadRet(i) == ev.arg[2 * i]
ReadRaw(i) == ev.arg[2 * i + 1]
ReadValid(i) == ReadRet(i) >= 0 /\ ReadRaw(i) >= 0 /\ ReadRaw(i) <= 4095
ValidReads == {i \in 1..4 : ReadValid(i)}
ValidSum ==
    (IF ReadValid(1) THEN ReadRaw(1) ELSE 0) + (IF ReadValid(2) THEN ReadRaw(2) ELSE 0)
    + (IF ReadValid(3) THEN ReadRaw(3) ELSE 0) + (IF ReadValid(4) THEN ReadRaw(4) ELSE 0)

\* C14: getReading on an initialised gauge performs exactly 4 acquisitions,
\* ignores each one that fails or gives a raw value outside [0, 4095], fails
\* with ReadError exactly when none of the 4 is valid and otherwise succeeds
\* with the reading computed from the average of the valid samples only; on
\* ReadError the caller's output and the stored last reading are unchanged.
C14_GetReadingSamples ==
    (/\ IsOp("hal_battery_get_info")
     /\ ev.pre.battery_initialized
     /\ ev.arg[1] = 1) =>
        /\ Len(ev.calls) = 4
        /\ \A i \in 1..4 : ev.calls[i] = <<"adc_read", i>>
        /\ ev.ret \in {HAL_BATTERY_SUCCESS, HAL_BATTERY_ERROR_READ}
        /\ (ev.ret = HAL_BATTERY_ERROR_READ) = (ValidReads = {})
        /\ ValidReads # {} =>
               LET avg == ValidSum \div Cardinality(ValidReads)
                   mv == adc_raw_to_mv(avg)
                   pct == hal_battery_voltage_to_percentage(mv)
               IN  /\ ev.out = <<mv, pct, hal_battery_percentage_to_state(pct)>>
                   /\ last_reading =
                          [voltage_mv |-> ev.out[1], percentage |-> ev.out[2],
                           state |-> ev.out[3]]
        /\ ValidReads = {} =>
               /\ ev.out = <<>>
               /\ FwRec = ev.pre

\* an acquisition with a failed read, a saturated one and two different valid
\* ones, whose average replaced the stored reading
C14_Witness ==
    /\ IsOp("hal_battery_get_info")
    /\ ev.pre.battery_initialized
    /\ ev.arg[1] = 1
    /\ \E i \in 1..4 : ReadRet(i) < 0
    /\ \E i \in 1..4 : ReadRet(i) = 0 /\ ReadRaw(i) > 4095
    /\ \E i, j \in ValidReads : ReadRaw(i) # ReadRaw(j)
    /\ ev.ret = HAL_BATTERY_SUCCESS
    /\ ev.out[1] = 1799
    /\ last_reading # ev.pre.last_reading

StopOutsideAdvertising ==
    (IsOp("hal_ble_stop_advertising") /\ ev.pre.current_state # "ADVERTISING") =>
        /\ ev.ret = HAL_BLE_ERROR_STATE
        /\ ev.calls = <<>>
        /\ ev.cbs = <<>>
        /\ FwRec = ev.pre

\* C15 as stated: stopAdvertising in state Advertising moves the state to
\* Ready and delivers adv_stopped; in Idle, Ready or Connected it fails with
\* InvalidState and leaves the state, the connection reference and the
\* pending advertising work unchanged.
C15_StopAlwaysStops ==
    /\ (IsOp("hal_ble_stop_advertising") /\ ev.pre.current_state = "ADVERTISING") =>
           /\ current_state = "READY"
           /\ DeliveredWith("adv_stopped", 0)
    /\ StopOutsideAdvertising

\* C15 as amended: stopAdvertising in state Advertising asks the link layer
\* to stop; when the link layer accepts, it returns success, the state is
\* Ready and adv_stopped has been delivered once; when the link layer refuses,
\* it returns Failed, the state stays Advertising and no callback is
\* delivered.  In Idle, Ready or Connected it fails with InvalidState and
\* changes nothing.
C15_StopResult ==
    /\ (/\ IsOp("hal_ble_stop_advertising")
        /\ ev.pre.current_state = "ADVERTISING") =>
           /\ ev.calls = << <<"bt_le_adv_stop", 0>> >>
           /\ ev.arg[1] = 1 =>
                  /\ ev.ret = HAL_BLE_SUCCESS
                  /\ current_state = "READY"
                  /\ ev.cbs = << <<"adv_stopped", 0>> >>
                  /\ FwRec = [ev.pre EXCEPT !.current_state = "READY",
                                            !.ll_adv = FALSE]
           /\ ev.arg[1] = 0 =>
                  /\ ev.ret = HAL_BLE_ERROR_FAILED
                  /\ ev.cbs = <<>>
                  /\ FwRec = ev.pre
    /\ StopOutsideAdvertising

\* a stop accepted by the link layer while the radio was advertising
C15_Witness ==
    /\ IsOp("hal_ble_stop_advertising")
    /\ ev.pre.current_state = "ADVERTISING"
    /\ ev.pre.ll_adv
    /\ ev.ret = HAL_BLE_SUCCESS
    /\ current_state = "READY"
    /\ ~ll_adv

\* disconnect() while Connected only asks the link layer to terminate; the
\* manager leaves Connected and gives up its reference only in the disconnect
\* event
DisconnectWhenConnected ==
    /\ (IsOp("hal_ble_disconnect") /\ ev.pre.current_state = "CONNECTED") =>
           /\ ev.calls = << <<"bt_conn_disconnect", ev.pre.ble_current_conn>> >>
           /\ ev.cbs = <<>>
           /\ current_state = "CONNECTED"
           /\ ble_current_conn = ev.pre.ble_current_conn
           /\ ble_refs[ble_current_conn] = 1
           /\ FwRec = ev.pre
    /\ (ev.pre.current_state = "CONNECTED" /\ current_state # "CONNECTED") =>
           IsOp("disconnected") /\ current_state = "READY"
    /\ (ev.pre.ble_current_conn # NULL /\ ble_current_conn = NULL) =>
           IsOp("disconnected")

InitRefused ==
    /\ ev.ret = HAL_BLE_ERROR_INVALID
    /\ current_state = "IDLE"
    /\ ~ll_enabled
    /\ ~Called("bt_enable")
    /\ FwRec = ev.pre

\* C17 as stated: a first init fails with InvalidArgument when the name is
\* empty or longer than 29 bytes, leaving the manager Idle and the link layer
\* not enabled; for every name of 1 to 29 bytes, with the link layer enabling
\* successfully, it moves Idle to Ready.
C17_EmptyNameRefused ==
    (IsOp("hal_ble_init") /\ ~ev.pre.ble_initialized) =>
        /\ (ev.arg[1] = 0 \/ ev.arg[1] > 29) => InitRefused
        /\ (ev.arg[1] \in 1..29 /\ ev.arg[2] = 1) =>
               /\ ev.ret = HAL_BLE_SUCCESS
               /\ ev.pre.current_state = "IDLE"
               /\ current_state = "READY"

\* C17 as amended: a first init fails with InvalidArgument when the name is
\* absent (NULL) or longer than 29 bytes, leaving the manager Idle and the
\* link layer not enabled; for every name of 0 to 29 bytes, the empty name
\* included, with the link layer enabling successfully, it moves Idle to
\* Ready.
C17_InitNameValidation ==
    (IsOp("hal_ble_init") /\ ~ev.pre.ble_initialized) =>
        /\ (ev.arg[1] = -1 \/ ev.arg[1] > 29) => InitRefused
        /\ (ev.arg[1] \in 0..29 /\ ev.arg[2] = 1) =>
               /\ ev.ret = HAL_BLE_SUCCESS
               /\ ev.pre.current_state = "IDLE"
               /\ current_state = "READY"
               /\ ll_enabled
               /\ device_name = ev.arg[1]

\* a first init refused for a name of 30 bytes
C17_Witness ==
    /\ IsOp("hal_ble_init")
    /\ ~ev.pre.ble_initialized
    /\ ev.arg[1] = 30
    /\ ev.ret = HAL_BLE_ERROR_INVALID
    /\ current_state = "IDLE"

\* C18: an init after a successful one returns success and changes nothing:
\* state, connection reference, device name, registered callbacks, stored
\* advertising parameters and pending work stay as they were, whatever the
\* arguments, a name a first init would refuse included.
C18_ReinitIsNoOp ==
    (IsOp("hal_ble_init") /\ ev.pre.ble_initialized) =>
        /\ ev.ret = HAL_BLE_SUCCESS
        /\ ev.calls = <<>>
        /\ ev.cbs = <<>>
        /\ FwRec = ev.pre

\* an init with a name of 30 bytes and another callback structure, called
\* while Connected with parameters stored and the advertising work pending
C18_Witness ==
    /\ IsOp("hal_ble_init")
    /\ ev.pre.ble_initialized
    /\ ev.arg[1] = 30
    /\ ev.arg[3] = 2
    /\ ev.pre.current_state = "CONNECTED"
    /\ ev.pre.adv_param
    /\ ev.pre.adv_work
    /\ ev.ret = HAL_BLE_SUCCESS

\* C19: startAdvertising in state Ready with a config where interval_min < 20,
\* interval_max > 10240 or interval_min > interval_max fails with
\* InvalidArgument, queues no advertising work and leaves the state and the
\* stored advertising parameters unchanged.
C19_InvalidConfigRefused ==
    (/\ IsOp("hal_ble_start_advertising")
     /\ ev.pre.current_state = "READY"
     /\ ev.arg[1] = 1
     /\ (ev.arg[2] < 20 \/ ev.arg[3] > 10240 \/ ev.arg[2] > ev.arg[3])) =>
        /\ ev.ret = HAL_BLE_ERROR_INVALID
        /\ ~Called("k_work_submit")
        /\ adv_work = ev.pre.adv_work
        /\ current_state = "READY"
        /\ adv_param = ev.pre.adv_param
        /\ adv_param_storage = ev.pre.adv_param_storage
        /\ FwRec = ev.pre

\* a config with both intervals in range but interval_min > interval_max,
\* refused in Ready with the parameters of an earlier start stored and no
\* work pending
C19_Witness ==
    /\ IsOp("hal_ble_start_advertising")
    /\ ev.pre.current_state = "READY"
    /\ ev.arg[1] = 1
    /\ ev.arg[2] > ev.arg[3]
    /\ ev.arg[2] <= 10240 /\ ev.arg[3] >= 20
    /\ ev.pre.adv_param
    /\ ~ev.pre.adv_work
    /\ ev.ret = HAL_BLE_ERROR_INVALID
    /\ ~adv_work

\* C20: setIntermittent(active, intensity) fails with NotInitialized before
\* the buzzer is initialised and with InvalidArgument when intensity > 100,
\* for active true and false alike; the failing call leaves the active flag,
\* the stored intensity, the timer and the output unchanged, so a
\* deactivation carrying an intensity > 100 does not stop a running pattern.
C20_SetIntermittentErrors ==
    IsOp("hal_buzzer_set_intermittent") =>
        /\ ~ev.pre.buzzer_initialized => ev.ret = HAL_BUZZER_ERROR_STATE
        /\ (ev.pre.buzzer_initialized /\ ev.arg[2] > 100) =>
               ev.ret = HAL_BUZZER_ERROR_INVALID
        /\ (ev.pre.buzzer_initialized /\ ev.arg[2] <= 100) =>
               ev.ret = HAL_BUZZER_SUCCESS
        /\ ev.ret # HAL_BUZZER_SUCCESS =>
               /\ ev.calls = <<>>
               /\ pattern_intermittent_active = ev.pre.pattern_intermittent_active
               /\ current_intensity = ev.pre.current_intensity
               /\ pattern_intermittent_work = ev.pre.pattern_intermittent_work
               /\ pwm_pulse = ev.pre.pwm_pulse
               /\ FwRec = ev.pre

\* a deactivation carrying intensity 101, refused while the pattern is
\* active, the output on and the next toggle scheduled
C20_Witness ==
    /\ IsOp("hal_buzzer_set_intermittent")
    /\ ev.arg = <<0, 101>>
    /\ ev.pre.pattern_intermittent_active
    /\ ev.pre.pwm_pulse > 0
    /\ ev.pre.pattern_intermittent_work = "delayed"
    /\ ev.ret = HAL_BUZZER_ERROR_INVALID
    /\ pattern_intermittent_active
    /\ pwm_pulse > 0

\* C21: when the deferred advertising start is refused by the link layer
\* (the radio was not advertising and the manager not Connected), the start
\* is retried without a further application call or link event: the handler
\* leaves the advertising work queued again.
C21_FailedStartRetried ==
    (/\ IsOp("adv_work_handler")
     /\ ev.pre.current_state # "CONNECTED"
     /\ ~ev.pre.ll_adv
     /\ ev.arg[1] = 0) =>
        adv_work

\* the quotient avg_raw * 3600 / 4095 rounded to the nearest integer (4095 is
\* odd: no quotient lies half way)
Rounded(avg_raw) ==
    CHOOSE mv \in 0..ADC_VREF_MV :
        /\ 2 * (2^ADC_RESOLUTION - 1) * mv <=
               2 * avg_raw * ADC_VREF_MV + (2^ADC_RESOLUTION - 1)
        /\ 2 * avg_raw * ADC_VREF_MV + (2^ADC_RESOLUTION - 1) <
               2 * (2^ADC_RESOLUTION - 1) * (mv + 1)

\* C22 as stated: for every average raw value 0..4095 the voltage is the
\* quotient avg_raw * 3600 / 4095 rounded to the nearest integer.
C22_VoltageRounded ==
    IsOp("adc_raw_to_mv") => ev.ret = Rounded(ev.arg[1])

\* C22: for every average raw value 0..4095 the voltage is the quotient
\* avg_raw * 3600 / 4095 truncated to an integer: the largest mv with
\* mv * 4095 <= avg_raw * 3600.
C22_VoltageTruncated ==
    IsOp("adc_raw_to_mv") =>
        /\ ev.ret * (2^ADC_RESOLUTION - 1) <= ev.arg[1] * ADC_VREF_MV
        /\ ev.arg[1] * ADC_VREF_MV < (ev.ret + 1) * (2^ADC_RESOLUTION - 1)

\* an average whose quotient has a fraction above one half: 3412 * 3600 / 4095
\* is 2999.56
C22_Witness ==
    /\ IsOp("adc_raw_to_mv")
    /\ 2 * ((ev.arg[1] * ADC_VREF_MV) % (2^ADC_RESOLUTION - 1)) >
           2^ADC_RESOLUTION - 1
    /\ ev.ret < Rounded(ev.arg[1])

\* an accepted setIntermittent(true, j) that found the pattern active
Reactivated ==
    /\ IsOp("hal_buzzer_set_intermittent")
    /\ ev.arg[1] = 1
    /\ ev.arg[2] <= 100
    /\ ev.pre.buzzer_initialized
    /\ ev.pre.pattern_intermittent_active

\* C23 as stated: setIntermittent(true, j) while the pattern is active
\* replaces the pending 500 ms timer by an immediate run and starts the on/off
\* flag over, so that the next handler run drives the output on.
C23_ReactivationRestartsPhase ==
    Reactivated =>
        /\ pattern_intermittent_work = "queued"
        /\ ~handler_state
        /\ current_intensity = ev.arg[2]

\* C23: setIntermittent(true, j) while the pattern is active keeps the toggle
\* phase: the pending toggle (queued or on its 500 ms timer) stays as it was,
\* the on/off flag and the output are not touched and only the stored
\* intensity becomes j; the next handler run continues the alternation, on at
\* intensity j after an off phase and off after an on phase.
C23_ReactivationKeepsPhase ==
    /\ [](Reactivated =>
            /\ ev.ret = HAL_BUZZER_SUCCESS
            /\ pattern_intermittent_active
            /\ pattern_intermittent_work # "idle"
            /\ pattern_intermittent_work = ev.pre.pattern_intermittent_work
            /\ handler_state = ev.pre.handler_state
            /\ pwm_pulse = ev.pre.pwm_pulse
            /\ current_intensity = ev.arg[2])
    /\ [][(Reactivated /\ ev'.op = "pattern_intermittent_handler") =>
            /\ handler_state' = ~handler_state
            /\ pwm_pulse' = IF handler_state THEN 0
                            ELSE intensity_to_pulse_ns(ev.arg[2])]_vars

\* a re-activation with another intensity during the on phase, the next
\* toggle still on its 500 ms timer
C23_Witness ==
    /\ Reactivated
    /\ ev.pre.pattern_intermittent_work = "delayed"
    /\ ev.pre.handler_state
    /\ ev.pre.pwm_pulse > 0
    /\ ev.arg[2] # ev.pre.current_intensity
    /\ ev.arg[2] > 0

\* the i-th read of the acquisition of an is_critical call, from its arguments
CriticalReadValid(i) ==
    /\ ev.arg[2 * i - 1] >= 0
    /\ ev.arg[2 * i] >= 0
    /\ ev.arg[2 * i] <= 4095

\* the reading of an is_critical call succeeded: the gauge was initialised and
\* one read at least was valid (the reading is then the stored last reading)
CriticalReadOk ==
    /\ ev.pre.battery_initialized
    /\ \E i \in 1..4 : CriticalReadValid(i)

\* C24: hal_battery_is_critical returns true exactly when the gauge is
\* initialised, a reading succeeds and its percentage is < 10; it returns
\* false when uninitialised, when the reading fails and when the percentage is
\* 10 or more.
C24_CriticalBelowTen ==
    IsOp("hal_battery_is_critical") =>
        (ev.ret = 1) = (CriticalReadOk /\ last_reading.percentage < 10)

\* C25: every change of the manager state is Idle->Ready by init,
\* Ready->Advertising by the deferred handler, Advertising->Ready by
\* stopAdvertising, Ready->Connected or Advertising->Connected by a successful
\* connect event, or Connected->Ready by a disconnect event; so the state never
\* goes from Connected to Advertising and never returns to Idle.
C25_StateChanges ==
    ev.pre.current_state # current_state =>
        \/ /\ ev.pre.current_state = "IDLE"
           /\ current_state = "READY"
           /\ IsOp("hal_ble_init")
        \/ /\ ev.pre.current_state = "READY"
           /\ current_state = "ADVERTISING"
           /\ IsOp("adv_work_handler")
           /\ ev.arg[1] = 1
        \/ /\ ev.pre.current_state = "ADVERTISING"
           /\ current_state = "READY"
           /\ IsOp("hal_ble_stop_advertising")
        \/ /\ ev.pre.current_state \in {"READY", "ADVERTISING"}
           /\ current_state = "CONNECTED"
           /\ IsOp("connected")
           /\ ev.arg[2] = 0
        \/ /\ ev.pre.current_state = "CONNECTED"
           /\ current_state = "READY"
           /\ IsOp("disconnected")

\* the deferred handler ran while Connected with the link layer ready to
\* advertise, and the state stayed Connected
C25_Witness ==
    /\ IsOp("adv_work_handler")
    /\ ev.arg[1] = 1
    /\ ev.pre.current_state = "CONNECTED"
    /\ current_state = "CONNECTED"

C27_StartWhileAdvertising ==
    (IsOp("hal_ble_start_advertising") /\ ev.pre.current_state = "ADVERTISING") =>
        /\ ev.ret = HAL_BLE_SUCCESS
        /\ ev.calls = <<>>
        /\ ev.cbs = <<>>
        /\ adv_work = ev.pre.adv_work
        /\ current_state = "ADVERTISING"
        /\ adv_param = ev.pre.adv_param
        /\ adv_param_storage = ev.pre.adv_param_storage
        /\ FwRec = ev.pre

\* a config with interval_min > interval_max, accepted in Advertising with no
\* work pending and the default parameters in use
C27_Witness ==
    /\ IsOp("hal_ble_start_advertising")
    /\ ev.pre.current_state = "ADVERTISING"
    /\ ev.arg[1] = 1
    /\ ev.arg[2] > ev.arg[3]
    /\ ~ev.pre.adv_work
    /\ ~ev.pre.adv_param
    /\ ev.ret = HAL_BLE_SUCCESS

\* a run of the toggle handler that found the pattern active
ActiveRun ==
    /\ IsOp("pattern_intermittent_handler")
    /\ ev.pre.pattern_intermittent_active

\* C28: while the pattern stays active the toggle handler keeps running: each
\* run flips the on/off flag, drives the output to the intensity when on and
\* to 0 when off, and schedules the next run 500 ms later; the flag changes
\* in no other step, so consecutive runs alternate; an active pattern always
\* has its next run pending, and it becomes inactive only in a step that
\* cancels the timer (a deactivation by setIntermittent(false), a remote 0x00
\* write or a disconnect); so if the pattern stays active for ever the handler
\* runs again and again.
C28_ToggleForever ==
    /\ [](ActiveRun =>
            /\ CalledWith("k_work_schedule", PATTERN_INTERMITTENT_PERIOD_MS)
            /\ pattern_intermittent_work = "delayed"
            /\ pattern_intermittent_active
            /\ handler_state = ~ev.pre.handler_state
            /\ pwm_pulse = IF handler_state
                           THEN intensity_to_pulse_ns(current_intensity)
                           ELSE 0)
    /\ [](pattern_intermittent_active => pattern_intermittent_work # "idle")
    /\ [][handler_state' # handler_state =>
              ev'.op = "pattern_intermittent_handler"]_vars
    /\ [][(pattern_intermittent_active /\ ~pattern_intermittent_active') =>
              /\ ev'.op \in {"hal_buzzer_set_intermittent",
                             "write_buzzer_intermittent", "disconnected"}
              /\ \E i \in 1..Len(ev'.calls) :
                     ev'.calls[i][1] = "k_work_cancel_delayable"]_vars
    /\ (<>[]pattern_intermittent_active => []<><<PatternWork>>_vars)

\* a run in the off phase directly after a run in the on phase, the pattern
\* active throughout
C28_Witness ==
    /\ ActiveRun
    /\ ev.pre.handler_state
    /\ ev.pre.pwm_pulse > 0
    /\ ev.pre.pattern_intermittent_work = "delayed"
    /\ pwm_pulse = 0
    /\ pattern_intermittent_work = "delayed"

\* a remote read of one of the three battery characteristics; its arguments
\* are <<len, offset>> followed by the four reads of the acquisition
IsRead ==
    ev.op \in {"read_battery_level", "read_battery_voltage", "read_battery_state"}
FreshValid(i) ==
    /\ ev.arg[2 * i + 1] >= 0
    /\ ev.arg[2 * i + 2] >= 0
    /\ ev.arg[2 * i + 2] <= 4095
FreshReads == {i \in 1..4 : FreshValid(i)}
FreshOk == ev.pre.battery_initialized /\ FreshReads # {}
FreshSum ==
    (IF FreshValid(1) THEN ev.arg[4] ELSE 0) + (IF FreshValid(2) THEN ev.arg[6] ELSE 0)
    + (IF FreshValid(3) THEN ev.arg[8] ELSE 0) + (IF FreshValid(4) THEN ev.arg[10] ELSE 0)
\* the reading the acquisition of this read gives
FreshVoltage == adc_raw_to_mv(FreshSum \div Cardinality(FreshReads))
FreshPercentage == hal_battery_voltage_to_percentage(FreshVoltage)
FreshState == hal_battery_percentage_to_state(FreshPercentage)
\* the field the characteristic carries, as the client receives it
FreshField ==
    CASE IsOp("read_battery_level") -> <<FreshPercentage>>
      [] IsOp("read_battery_voltage") ->
             <<FreshVoltage % 256, FreshVoltage \div 256>>
      [] IsOp("read_battery_state") -> <<FreshState>>

\* C29: every remote read of the battery level, voltage or state
\* characteristic calls getReading exactly once (one acquisition of 4 reads on
\* an initialised gauge), and when that reading succeeds the client receives
\* the bytes of the corresponding field of that reading, from the offset it
\* asked for and as many as its buffer takes; an offset past the value is
\* refused with InvalidOffset.
C29_ReadIsFresh ==
    IsRead =>
        /\ CountCalls("hal_battery_get_info", 0) = 1
        /\ ev.calls[1] = <<"hal_battery_get_info", 0>>
        /\ Len(ev.calls) = IF ev.pre.battery_initialized THEN 5 ELSE 1
        /\ \A i \in 2..Len(ev.calls) : ev.calls[i] = <<"adc_read", i - 1>>
        /\ FreshOk =>
               IF ev.arg[2] > Len(FreshField)
               THEN /\ ev.ret = -BT_ATT_ERR_INVALID_OFFSET
                    /\ ev.out = <<>>
               ELSE /\ ev.ret = Min(ev.arg[1], Len(FreshField) - ev.arg[2])
                    /\ ev.out = SubSeq(FreshField, ev.arg[2] + 1,
                                       ev.arg[2] + ev.ret)
        /\ (FreshOk /\ ev.arg[2] = 0 /\ ev.arg[1] >= 2) => ev.out = FreshField

\* a read of the voltage into a full buffer while 2200 mV is cached: the
\* acquisition gives 3600 mV and the client receives its two bytes
C29_Witness ==
    /\ IsOp("read_battery_voltage")
    /\ ev.arg[1] = ATT_BUF_LEN
    /\ ev.arg[2] = 0
    /\ FreshOk
    /\ ev.pre.battery_voltage = 2200
    /\ ev.pre.last_reading.voltage_mv = 2200
    /\ FreshVoltage = 3600
    /\ ev.ret = 2
    /\ ev.out = <<16, 14>>

\* C30: between events the manager is Connected exactly when it holds a
\* connection, with one reference on that connection and none on any other;
\* so is_connected() is true exactly in state Connected, and disconnect() on
\* an initialised manager returns NotConnected exactly when the state is not
\* Connected.
C30_ConnectedIffReference ==
    /\ (current_state = "CONNECTED") = (ble_current_conn # NULL)
    /\ \A c \in Conns : ble_refs[c] = IF c = ble_current_conn THEN 1 ELSE 0
    /\ IsOp("hal_ble_is_connected") =>
           (ev.ret = 1) = (ev.pre.current_state = "CONNECTED")
    /\ (IsOp("hal_ble_disconnect") /\ ev.pre.ble_initialized) =>
           (ev.ret = HAL_BLE_ERROR_NOT_CONNECTED) =
               (ev.pre.current_state # "CONNECTED")

\* is_connected() answered true while the manager is Connected and holds its
\* one reference on the connection
C30_Witness ==
    /\ IsOp("hal_ble_is_connected")
    /\ ev.ret = 1
    /\ current_state = "CONNECTED"
    /\ ble_current_conn # NULL
    /\ ll_link = ble_current_conn
    /\ ble_refs[ble_current_conn] = 1

\* C31: whenever the state is Advertising and no advertising work is pending,
\* the link layer is advertising: the manager never reports Advertising while
\* the radio is idle.
C31_AdvertisingMeansOnAir ==
    (current_state = "ADVERTISING" /\ ~adv_work) => ll_adv

\* the link layer refused the start the deferred handler attempted
StartRefused == IsOp("adv_work_handler") /\ ev.arg[1] = 0 /\ Called("bt_le_adv_start")

\* C32: a disconnect event leaves the manager Ready with the radio idle; the
\* recycle event queues the advertising work; the handler, when the link layer
\* accepts the start, moves Ready to Advertising; so after a disconnect event
\* the manager reaches Advertising or Connected again with no application
\* call, unless the link layer refuses the start.
C32_RearmAfterDisconnect ==
    /\ [](IsOp("disconnected") => (current_state = "READY" /\ ~ll_adv))
    /\ [](IsOp("recycled") => adv_work)
    /\ []((IsOp("adv_work_handler") /\ ev.arg[1] = 1
               /\ ev.pre.current_state = "READY") =>
              (current_state = "ADVERTISING" /\ ll_adv))
    /\ (IsOp("disconnected") ~>
            (current_state \in {"ADVERTISING", "CONNECTED"} \/ StartRefused))

\* a disconnect event that found the manager Connected and left it Ready with
\* the radio idle and no advertising work pending
C32_Witness ==
    /\ IsOp("disconnected")
    /\ ev.pre.current_state = "CONNECTED"
    /\ ev.pre.ll_link # NULL
    /\ current_state = "READY"
    /\ ~adv_work
    /\ ~ll_adv

\* C33: after every event the battery bridge and the connectivity manager
\* hold the same connection, each with its own single reference on it: the
\* bridge holds a reference exactly when the manager does, so notify() returns
\* NotConnected exactly when the manager is not Connected.
C33_BridgeAgreesWithManager ==
    /\ bas_current_conn = ble_current_conn
    /\ bas_refs = ble_refs
    /\ (bas_current_conn # NULL) = (current_state = "CONNECTED")
    /\ IsOp("gatt_battery_service_notify") =>
           (ev.ret = -ENOTCONN) = (ev.pre.current_state # "CONNECTED")

\* notify() went past the link check while the manager was Connected, both
\* modules holding one reference on the same connection
C33_Witness ==
    /\ IsOp("gatt_battery_service_notify")
    /\ ev.pre.current_state = "CONNECTED"
    /\ ev.ret # -ENOTCONN
    /\ bas_current_conn # NULL
    /\ bas_current_conn = ble_current_conn
    /\ bas_refs[bas_current_conn] = 1
    /\ ble_refs[ble_current_conn] = 1

\* C34: with CCC writes arriving only on a live link, the subscription is on
\* only while the battery bridge holds a connection; a disconnect event turns
\* it off, and a link that comes up starts unsubscribed.
C34_SubscribedImpliesConnected ==
    /\ notify_enabled => (bas_current_conn # NULL /\ ll_link # NULL)
    /\ IsOp("disconnected") => ~notify_enabled
    /\ (IsOp("connected") /\ ev.arg[2] = 0) => ~notify_enabled

\* a disconnect event that found the client subscribed
C34_Witness ==
    /\ IsOp("disconnected")
    /\ ev.pre.notify_enabled
    /\ ev.pre.bas_current_conn # NULL
    /\ ~notify_enabled
    /\ bas_current_conn = NULL

\* a startAdvertising call that stored its parameters: made in Ready with no
\* config or a config in range
StartStored ==
    /\ IsOp("hal_ble_start_advertising")
    /\ ev.pre.current_state = "READY"
    /\ ev.ret = HAL_BLE_SUCCESS

\* C35: every start the deferred handler attempts uses the parameters stored
\* by the most recent startAdvertising call that passed validation: 500/500 ms
\* connectable with identity if that call had no config (or there was none),
\* else its intervals in 0.625 ms units and its options; the stored parameters
\* change in no other step, so restarts after a failed connect or a recycle
\* reuse them and a failing or no-op startAdvertising call leaves them alone.
C35_ParametersReused ==
    /\ []((IsOp("adv_work_handler") /\ Called("bt_le_adv_start")) =>
              /\ Len(ev.calls) = 1
              /\ ev.calls[1][2] =
                     IF ev.pre.adv_param THEN ev.pre.adv_param_storage
                     ELSE [options |-> 5, interval_min |-> 800,
                           interval_max |-> 800])
    /\ [](StartStored =>
              /\ adv_param = (ev.arg[1] = 1)
              /\ ev.arg[1] = 1 =>
                     adv_param_storage =
                         [options |-> ev.arg[4] + 4 * ev.arg[5],
                          interval_min |-> (ev.arg[2] * 1000) \div 625,
                          interval_max |-> (ev.arg[3] * 1000) \div 625])
    /\ []((IsOp("hal_ble_start_advertising") /\ ~StartStored) =>
              FwRec = ev.pre)
    /\ [][(adv_param' # adv_param \/ adv_param_storage' # adv_param_storage) =>
              /\ ev'.op = "hal_ble_start_advertising"
              /\ ev'.ret = HAL_BLE_SUCCESS
              /\ current_state = "READY"]_vars

\* a restart after a failed connect: the handler ran with the manager still
\* reporting Advertising and the radio idle, and started with the parameters
\* an earlier call stored
C35_Witness ==
    /\ IsOp("adv_work_handler")
    /\ ev.pre.current_state = "ADVERTISING"
    /\ ~ev.pre.ll_adv
    /\ ev.pre.adv_param
    /\ ev.pre.adv_param_storage.interval_min = 32
    /\ CalledWith("bt_le_adv_start", ev.pre.adv_param_storage)
    /\ ev.arg[1] = 1

\* C36: the voltage-to-percentage mapping is bounded and non-decreasing: for
\* every uint16 voltage the result lies in 0..100 and is not below the result
\* of the voltage one millivolt lower (so percentage(v1) <= percentage(v2) for
\* all v1 <= v2), and the state derived from it is not below the state of the
\* lower voltage in the order Critical < Low < Medium < Good.
C36_PercentageMonotonic ==
    IsOp("hal_battery_voltage_to_percentage") =>
        /\ ev.ret \in 0..100
        /\ ev.arg[1] > 0 =>
               /\ hal_battery_voltage_to_percentage(ev.arg[1] - 1) <= ev.ret
               /\ hal_battery_percentage_to_state(
                      hal_battery_voltage_to_percentage(ev.arg[1] - 1))
                  <= hal_battery_percentage_to_state(ev.ret)

\* the voltage where the 30-70% segment hands over to the 70-100% segment
C36_Witness ==
    /\ IsOp("hal_battery_voltage_to_percentage")
    /\ ev.arg[1] = BATTERY_VOLTAGE_GOOD_MV
    /\ ev.ret = 70
    /\ hal_battery_voltage_to_percentage(ev.arg[1] - 1) = 69

\* C37: the on/off flag of the buzzer is never reset: it is off at boot and
\* changes in exactly the steps that are handler runs finding the pattern
\* active, each of which flips it, so it is on exactly when the number of
\* active handler runs since boot is odd; neither a deactivation nor an
\* activation touches it; an active run drives the output to the intensity
\* when the flag is then on and to 0 otherwise; so the first run after an
\* activation that follows a deactivation in the on phase drives the output
\* to 0 and schedules the next run, the one that sounds, 500 ms later.
C37_PhaseNeverReset ==
    /\ ~handler_state
    /\ [][(handler_state' # handler_state) <=>
              (ev'.op = "pattern_intermittent_handler"
                  /\ pattern_intermittent_active)]_vars
    /\ [](ActiveRun =>
            /\ handler_state = ~ev.pre.handler_state
            /\ pwm_pulse = IF handler_state
                           THEN intensity_to_pulse_ns(current_intensity)
                           ELSE 0)
    /\ []((IsOp("hal_buzzer_set_intermittent") \/ IsOp("disconnected")
              \/ IsOp("write_buzzer_intermittent")) =>
            handler_state = ev.pre.handler_state)
    /\ []((ActiveRun /\ ev.pre.handler_state
              /\ ev.pre.pattern_intermittent_work = "queued") =>
            /\ pwm_pulse = 0
            /\ CalledWith("k_work_schedule", PATTERN_INTERMITTENT_PERIOD_MS)
            /\ pattern_intermittent_work = "delayed")

\* the first handler run after an activation, the flag left on by a
\* deactivation in the on phase: the output, silenced by the deactivation,
\* stays at 0 although the intensity is above 0
C37_Witness ==
    /\ ActiveRun
    /\ ev.pre.pattern_intermittent_work = "queued"
    /\ ev.pre.handler_state
    /\ ev.pre.pwm_pulse = 0
    /\ current_intensity > 0
    /\ pwm_pulse = 0
    /\ ~handler_state

\* C38: a deactivation that interleaves with a toggle-handler run which has
\* passed its active check does no lasting harm: after the flag is cleared
\* the handler flips the on/off flag at most once; an output left above 0
\* while the pattern is inactive always has something under way that will
\* silence it (the deactivation still running, or a handler run in progress
\* or pending that will find the pattern inactive); and, under every
\* interleaving, if the pattern is not activated again the output is
\* eventually and permanently 0.
C38_SilentAfterDeactivation ==
    /\ [](~pattern_intermittent_active => toggles_after_stop <= 1)
    /\ []((~pattern_intermittent_active /\ pwm_pulse > 0) =>
            \/ pc.link # "idle"
            \/ pc.work # "idle"
            \/ pattern_intermittent_work \in {"queued", "delayed"})
    /\ (<>[](~pattern_intermittent_active) => <>[](pwm_pulse = 0))

\* the value the characteristic carried before the read, as bytes
CachedField ==
    CASE IsOp("read_battery_level") -> BytesU8(ev.pre.battery_level)
      [] IsOp("read_battery_voltage") -> BytesU16(ev.pre.battery_voltage)
      [] IsOp("read_battery_state") -> BytesU8(ev.pre.battery_state)

\* the steps that store a reading or a given percentage in the bridge
StoresLevel ==
    {"read_battery_level", "gatt_battery_service_init",
     "gatt_battery_service_update", "gatt_battery_service_notify"}

\* C39: a remote read of a battery characteristic whose getReading fails
\* (gauge not initialised, or no valid sample) is answered like any read, from
\* the value the characteristic carried before: the client receives the cached
\* bytes from its offset on, successfully for every offset inside the value;
\* no static of the firmware changes and battery_read is not delivered.  The
\* caches are 0 at boot; the level changes only in a read or initialisation
\* with a successful reading, in update() and in a notify() that passed its
\* two checks, the voltage and the state only in a read of theirs or an
\* initialisation with a successful reading.  A notify() that returns
\* NotConnected or AccessDenied changes nothing.
C39_FailedReadingServesCache ==
    /\ battery_level = 0 /\ battery_voltage = 0 /\ battery_state = 0
    /\ []((IsRead /\ ~FreshOk) =>
            /\ FwRec = ev.pre
            /\ ~Delivered("battery_read")
            /\ IF ev.arg[2] > Len(CachedField)
               THEN /\ ev.ret = -BT_ATT_ERR_INVALID_OFFSET
                    /\ ev.out = <<>>
               ELSE /\ ev.ret = Min(ev.arg[1], Len(CachedField) - ev.arg[2])
                    /\ ev.ret >= 0
                    /\ ev.out = SubSeq(CachedField, ev.arg[2] + 1,
                                       ev.arg[2] + ev.ret))
    /\ []((IsOp("gatt_battery_service_notify")
              /\ ev.ret \in {-ENOTCONN, -EACCES}) =>
            /\ FwRec = ev.pre
            /\ ~Called("bt_gatt_notify"))
    /\ [][battery_level' # battery_level =>
              /\ ev'.op \in StoresLevel
              /\ ev'.op \in {"read_battery_level", "gatt_battery_service_init"}
                     => Len(ev'.calls) = 5]_vars
    /\ [][battery_voltage' # battery_voltage =>
              /\ ev'.op \in {"read_battery_voltage", "gatt_battery_service_init"}
              /\ Len(ev'.calls) = 5]_vars
    /\ [][battery_state' # battery_state =>
              /\ ev'.op \in {"read_battery_state", "gatt_battery_service_init"}
              /\ Len(ev'.calls) = 5]_vars

\* a read of the voltage into a full buffer on an initialised gauge whose four
\* ADC reads fail, while 2200 mV is cached: the client receives 2200
C39_Witness ==
    /\ IsOp("read_battery_voltage")
    /\ ev.arg[1] = ATT_BUF_LEN
    /\ ev.arg[2] = 0
    /\ ev.pre.battery_initialized
    /\ FreshReads = {}
    /\ ev.pre.battery_voltage = 2200
    /\ battery_voltage = 2200
    /\ ev.ret = 2
    /\ ev.out = <<152, 8>>

====
